---- MODULE Spec2Model ----
(***************************************************************************)
(* Model of youtube-video: the batch upload subsystem                      *)
(*   src/src/batchUploadToYoutube.ts  (YouTubeBatchUploader)               *)
(*   src/src/verifyYoutubeUpload.ts   (YouTubeUploadVerifier)              *)
(*   src/src/youtubeAuthenticator.ts  (YouTubeAuthenticator)               *)
(* and the video utilities                                                 *)
(*   src/src/split_video_precise.ts, src/src/split_video_precise_check.ts  *)
(*   src/src/concat-mts.ts, src/src/batchGenerateDescription.ts            *)
(*   src/unnamed/part_020             (generateDescription)                *)
(* File names are sequences of one-character strings so that the string    *)
(* operations of the code (startsWith, endsWith, match, parseInt, replace) *)
(* are computed and not assumed.                                           *)
(***************************************************************************)
EXTENDS Integers, Sequences, FiniteSets, TLC

\* ------------------------------------------------------------------ bounds
MaxFiles == 2          \* most entries of the videos directory of an upload run
MaxListing == 3        \* most entries of the directory of a findVideoFiles run
MaxRetriesBound == 2   \* largest explicitly configured maxRetries
MaxAttemptsBound == 3  \* largest maxAttempts of a direct verifyVideo call
MaxGetAuthCalls == 3   \* most getAuth calls made on one authenticator
MaxParts == 3          \* largest explicitly given number of parts of a split
MaxSources == 3        \* most entries of the source directory of a concatenation
MaxGenRetries == 3     \* largest explicitly given maxRetries of generateDescription
MaxTranscripts == 2    \* most entries of the transcripts directory

\* ------------------------------------------------------- program constants
DEFAULT_MAX_RETRIES == 3
DEFAULT_RETRY_DELAY == 1000
DEFAULT_MAX_ATTEMPTS == 5
DEFAULT_DELAY_MS == 3000
CATEGORY_ID == "22"
PRIVACY_STATUS == "private"

\* ------------------------------------------------------------ file names
Digits == {"0", "1", "2", "3", "4", "5", "6", "7", "8", "9"}

PART == <<"p", "a", "r", "t">>
DOT_MTS == <<".", "M", "T", "S">>
DESC_EN_SUFFIX == <<"-", "d", "e", "s", "c", "r", "i", "p", "t", "i", "o", "n", "_", "e", "n", ".", "t", "x", "t">>

part1_MTS == PART \o <<"1">> \o DOT_MTS
part2_MTS == PART \o <<"2">> \o DOT_MTS
part10_MTS == PART \o <<"1", "0">> \o DOT_MTS
part02_MTS == PART \o <<"0", "2">> \o DOT_MTS
partx_MTS == PART \o <<"x">> \o DOT_MTS
part5x_MTS == PART \o <<"5", "x">> \o DOT_MTS
other_MTS == <<"o", "t", "h", "e", "r">> \o DOT_MTS
xpart4_MTS == <<"x">> \o PART \o <<"4">> \o DOT_MTS
part3_mp4 == PART \o <<"3", ".", "m", "p", "4">>

\* names a videos directory of an upload run may hold
UploadNames == {part2_MTS, part10_MTS, part02_MTS, partx_MTS, other_MTS}

\* names a videos directory of a findVideoFiles run may hold
FindNames == UploadNames \cup {part1_MTS, part5x_MTS, xpart4_MTS, part3_mp4}

\* ------------------------------------------------------ string operations
\* String.prototype.startsWith
StartsWith(s, p) ==
    /\ Len(s) >= Len(p)
    /\ SubSeq(s, 1, Len(p)) = p

\* String.prototype.endsWith
EndsWith(s, p) ==
    /\ Len(s) >= Len(p)
    /\ SubSeq(s, Len(s) - Len(p) + 1, Len(s)) = p

\* end of the maximal digit run of s that starts at position i
RECURSIVE DigitRunEnd(_, _)
DigitRunEnd(s, i) ==
    IF i + 1 <= Len(s) /\ s[i + 1] \in Digits THEN DigitRunEnd(s, i + 1) ELSE i

\* positions where /part(\d+)/ matches: "part" followed by at least one digit
PartMatchStarts(s) ==
    {i \in 1..Len(s) : /\ i + 4 <= Len(s)
                       /\ SubSeq(s, i, i + 3) = PART
                       /\ s[i + 4] \in Digits}

Min(S) == CHOOSE x \in S : \A y \in S : x <= y

\* s.match(/part(\d+)/)?.[1]: the capture of the leftmost match, <<>> if none
MatchPartDigits(s) ==
    LET starts == PartMatchStarts(s)
    IN  IF starts = {} THEN <<>>
        ELSE LET i == Min(starts)
             IN  SubSeq(s, i + 4, DigitRunEnd(s, i + 4))

DigitValue(c) ==
    CASE c = "0" -> 0 [] c = "1" -> 1 [] c = "2" -> 2 [] c = "3" -> 3
      [] c = "4" -> 4 [] c = "5" -> 5 [] c = "6" -> 6 [] c = "7" -> 7
      [] c = "8" -> 8 [] c = "9" -> 9

\* parseInt(digits, 10) on a non-empty digit string
RECURSIVE ParseInt(_)
ParseInt(d) ==
    IF Len(d) = 0 THEN 0
    ELSE 10 * ParseInt(SubSeq(d, 1, Len(d) - 1)) + DigitValue(d[Len(d)])

\* match?.[1] ? parseInt(match[1], 10) : 0
PartNumber(f) ==
    LET digits == MatchPartDigits(f)
    IN  IF digits = <<>> THEN 0 ELSE ParseInt(digits)

\* positions where the substring p occurs in s
Occurrences(s, p) ==
    {i \in 1..Len(s) : i + Len(p) - 1 <= Len(s) /\ SubSeq(s, i, i + Len(p) - 1) = p}

\* s.replace(p, ''): removes the first occurrence of p only
ReplaceFirst(s, p) ==
    LET found == Occurrences(s, p)
    IN  IF found = {} THEN s
        ELSE LET i == Min(found)
             IN  SubSeq(s, 1, i - 1) \o SubSeq(s, i + Len(p), Len(s))

\* the filter of findVideoFiles
IsVideoFile(f) == StartsWith(f, PART) /\ EndsWith(f, DOT_MTS)

\* Array.prototype.filter
RECURSIVE FilterVideoFiles(_)
FilterVideoFiles(files) ==
    IF files = <<>> THEN <<>>
    ELSE (IF IsVideoFile(Head(files)) THEN <<Head(files)>> ELSE <<>>)
         \o FilterVideoFiles(Tail(files))

\* UTF-16 code unit of the characters that occur in the file names
CharCode(c) ==
    CASE c \in Digits -> 48 + DigitValue(c)
      [] c = "." -> 46 [] c = "M" -> 77 [] c = "S" -> 83 [] c = "T" -> 84
      [] c = "a" -> 97 [] c = "e" -> 101 [] c = "h" -> 104 [] c = "m" -> 109
      [] c = "o" -> 111 [] c = "p" -> 112 [] c = "r" -> 114 [] c = "s" -> 115
      [] c = "t" -> 116
      [] c = "x" -> 120

\* the default comparison of Array.prototype.sort: by code units
RECURSIVE CompareFilesLexicographic(_, _)
CompareFilesLexicographic(a, b) ==
    IF a = <<>> /\ b = <<>> THEN 0
    ELSE IF a = <<>> THEN -1
    ELSE IF b = <<>> THEN 1
    ELSE IF CharCode(Head(a)) # CharCode(Head(b))
         THEN CharCode(Head(a)) - CharCode(Head(b))
         ELSE CompareFilesLexicographic(Tail(a), Tail(b))

\* the comparator of findVideoFiles: numA - numB
CompareFiles(a, b) == PartNumber(a) - PartNumber(b)

\* insert x into the sorted list after every element that does not compare greater
RECURSIVE InsertSorted(_, _)
InsertSorted(x, sorted) ==
    IF sorted = <<>> THEN <<x>>
    ELSE IF CompareFiles(Head(sorted), x) <= 0
         THEN <<Head(sorted)>> \o InsertSorted(x, Tail(sorted))
         ELSE <<x>> \o sorted

\* Array.prototype.sort with the comparator (a stable sort)
RECURSIVE SortFiles(_)
SortFiles(files) ==
    IF files = <<>> THEN <<>>
    ELSE InsertSorted(files[Len(files)], SortFiles(SubSeq(files, 1, Len(files) - 1)))

\* findVideoFiles applied to a directory listing
FindVideoFilesOf(files) == SortFiles(FilterVideoFiles(files))

DigitChar(n) ==
    CASE n = 0 -> "0" [] n = 1 -> "1" [] n = 2 -> "2" [] n = 3 -> "3"
      [] n = 4 -> "4" [] n = 5 -> "5" [] n = 6 -> "6" [] n = 7 -> "7"
      [] n = 8 -> "8" [] n = 9 -> "9"

\* the decimal string of a natural number, as template interpolation prints it
RECURSIVE ToDecimal(_)
ToDecimal(n) ==
    IF n < 10 THEN <<DigitChar(n)>>
    ELSE ToDecimal(n \div 10) \o <<DigitChar(n % 10)>>

\* the description path built from the part number instead of the file name
DescEnPathByPartNumber(file) == PART \o ToDecimal(PartNumber(file)) \o DESC_EN_SUFFIX

\* path of the English description file, relative to descriptionsDir
DescEnPath(file) == ReplaceFirst(file, DOT_MTS) \o DESC_EN_SUFFIX

\* content of the description file at a path: every file has its own text
DescContent(p) == <<"#">> \o p

VIDEO_PART == <<"V", "i", "d", "e", "o", " ", "P", "a", "r", "t", " ">>

\* `Video Part ${partNumber}`
TitleOf(file) == VIDEO_PART \o ToDecimal(PartNumber(file))

\* 2 ** n
RECURSIVE Pow2(_)
Pow2(n) == IF n <= 0 THEN 1 ELSE 2 * Pow2(n - 1)

\* x ?? d, an omitted option being the empty set and a given one a singleton
OrDefault(opt, d) == IF opt = {} THEN d ELSE CHOOSE v \in opt : TRUE

\* x || d on strings: an omitted or empty string gives d
OrIfFalsy(opt, d) ==
    IF opt = {} THEN d
    ELSE LET v == CHOOSE w \in opt : TRUE IN IF v = "" THEN d ELSE v

\* ------------------------------------------------------------------ errors
Err(kind, att, status) == [kind |-> kind, attempt |-> att, status |-> status]
NoError == Err("none", 0, 0)

\* ------------------------------------------------------------------- state
VARIABLES
    options,      \* BatchUploadOptions as given to the constructor
    videosDir,    \* the names of the entries of the directory videosDir
    pc,           \* position of the running call
    caller,       \* "uploader": uploadBatch runs; "direct": verifyVideo was called directly
    videoFiles,   \* uploadBatch: const videoFiles
    idx,          \* uploadBatch: position of the for loop in videoFiles
    description,  \* uploadBatch: let description
    warned,       \* files for which batchLogger.warn was called
    descMissing,  \* files whose description file could not be read
    attempt,      \* uploadVideoWithRetry: let attempt
    request,      \* requestBody of the latest videos.insert call
    insertCount,  \* number of videos.insert calls of the running uploadVideoWithRetry
    touched,      \* positions of videoFiles for which videos.insert was called
    inserted,     \* the platform's videos: the requests of the successful inserts
    delays,       \* delays handed to setTimeout by the running uploadVideoWithRetry
    lastError,    \* uploadVideoWithRetry: the error caught by the catch block
    response,     \* uploadVideo: const response
    responses,    \* uploadBatch: const responses
    result,       \* outcome of the top-level call
    authCached,   \* the uploader's authenticator holds this.auth
    credReads,    \* number of reads of the credentials file
    tokenReads,   \* number of reads of the token file
    tokenWrites,  \* number of writes of the token file
    tokenPresent, \* the token file is known to hold a token: it was read or written
    vPreconfigured, \* the verifier was constructed from an OAuth2Client
    vMaxAttempts, \* verifyVideo: maxAttempts
    vDelayMs,     \* verifyVideo: delayMs
    vExpected,    \* verifyVideo: expected
    vAttempt,     \* fetchVideoData: let attempt
    vListCalls,   \* number of videos.list calls of the running verifyVideo
    vWaits,       \* delays handed to setTimeout by the running fetchVideoData
    vLastError,   \* fetchVideoData: the error caught by the catch block
    vFetched,     \* the record fetchVideoData returned, as a set of at most one
    vCalls        \* verifyVideo invocations as <<file position, expected>>

\* one YouTubeAuthenticator, its getAuth calls taken step by step
VARIABLES
    gaPreconfiguredAuth, \* this.preconfiguredAuth, as a set of at most one client
    gaTokenPath,  \* this.tokenPath
    gaAuth,       \* this.auth, as a set of at most one client
    gaPc,         \* position of the running getAuth call, "idle" between calls
    gaClient,     \* authorize / getNewToken: oauth2Client
    gaEvents,     \* what the running or latest getAuth call did, in order
    gaCalls,      \* number of getAuth calls made
    gaCreated,    \* number of OAuth2Client objects the authenticator created
    gaOutcome,    \* how the latest getAuth call ended
    gaReturned,   \* the clients the getAuth calls returned, in order
    tokenFiles    \* content of the token file at each path

\* one splitVideoPrecise call; durations are exact, in microseconds
VARIABLES
    spOptions,    \* options.parts, as a set of at most one number
    spPc,         \* position of the call
    spDuration,   \* const duration: what ffprobe reports for the source
    spStart,      \* let start
    spRemaining,  \* let remaining
    spI,          \* let i
    spCommands,   \* the ffmpeg invocations: part, -ss and -t in milliseconds
    spActual,     \* const actualDuration of each finished part
    spResult      \* outcome of the call

\* one splitVideoPreciseCheck call after the split
VARIABLES
    ckThreshold,  \* options.threshold, as a set of at most one number
    ckOthers,     \* durations of the part files that were in the output
                  \* directory before the split and that it does not write
    ckPc,         \* position of the call
    ckSum,        \* let sum
    ckResult      \* outcome of the call

\* one concatMts call; durations are exact, in microseconds
VARIABLES
    ccSourceDir,  \* names in sourceDir
    ccDestExists, \* whether destDir exists
    ccPc,         \* position of the call
    ccFiles,      \* const files
    ccEvents,     \* what the call did to destDir, in order
    ccProbed,     \* number of input files probed by the duration check
    ccSum,        \* let sum
    ccDiff,       \* const diff
    ccLog,        \* what the duration check logged
    ccResult      \* outcome of the call

\* one generateDescription call
VARIABLES
    gdMaxRetries, \* the maxRetries argument, as a set of at most one number
    gdPc,         \* position of the call
    gdAttempt,    \* let attempt
    gdExits,      \* exit code of every opencode invocation, in order
    gdOutput,     \* stdout of the latest invocation
    gdWaits,      \* the waits between invocations, in ms
    gdReturned,   \* the string returned
    gdResult      \* outcome of the call

\* one batchGenerateDescriptions call in its process
VARIABLES
    bgTransDir,   \* names in transDir
    bgExisting,   \* the description files there before the call, as <<base, language>>
    bgWritten,    \* the description files written by the jobs
    bgTemp,       \* the temporary transcript files that exist, by base name
    bgJobs,       \* const jobs, each with its delay, state and start time
    bgNow,        \* ms since the jobs were launched
    bgErrors,     \* the failures logged: the job and who logged it
    bgPc,         \* position of the call
    bgResult      \* outcome of the call

upVars == <<options, videosDir, videoFiles, description, warned, descMissing, attempt,
            request, insertCount, touched, inserted, delays, lastError, response>>
ctlVars == <<pc, result, responses, idx>>
authVars == <<authCached, credReads, tokenReads, tokenWrites, tokenPresent>>
verVars == <<vPreconfigured, vMaxAttempts, vDelayMs, vExpected, vAttempt,
             vListCalls, vWaits, vLastError, vFetched, vCalls>>
batchVars == <<ctlVars, caller, upVars, authVars, verVars>>
gaVars == <<gaPreconfiguredAuth, gaTokenPath, gaAuth, gaPc, gaClient, gaEvents,
            gaCalls, gaCreated, gaOutcome, gaReturned, tokenFiles>>
spVars == <<spOptions, spPc, spDuration, spStart, spRemaining, spI, spCommands,
            spActual, spResult>>
ckVars == <<ckThreshold, ckOthers, ckPc, ckSum, ckResult>>
ccVars == <<ccSourceDir, ccDestExists, ccPc, ccFiles, ccEvents, ccProbed, ccSum,
            ccDiff, ccLog, ccResult>>
gdVars == <<gdMaxRetries, gdPc, gdAttempt, gdExits, gdOutput, gdWaits, gdReturned,
            gdResult>>
bgVars == <<bgTransDir, bgExisting, bgWritten, bgTemp, bgJobs, bgNow, bgErrors, bgPc,
            bgResult>>
utilVars == <<ckVars, ccVars, gdVars, bgVars>>
\* what the actions of one utility leave alone
othersOfCheck == <<batchVars, gaVars, spVars, ccVars, gdVars, bgVars>>
othersOfConcat == <<batchVars, gaVars, spVars, ckVars, gdVars, bgVars>>
othersOfGenerate == <<batchVars, gaVars, spVars, ckVars, ccVars, bgVars>>
othersOfDescribe == <<batchVars, gaVars, spVars, ckVars, ccVars, gdVars>>
vars == <<batchVars, gaVars, spVars, utilVars>>

\* ----------------------------------------------------------------- values
NoRequest == [title |-> <<>>, description |-> <<>>, categoryId |-> "", privacyStatus |-> "", file |-> <<>>]
NoResponse == [status |-> 0, id |-> <<>>, file |-> <<>>]
NoExpected == [title |-> <<>>, description |-> <<>>, categoryId |-> "", privacyStatus |-> ""]

Pending == [status |-> "pending", error |-> NoError, value |-> <<>>]
Returned(v) == [status |-> "returned", error |-> NoError, value |-> v]
Rejected(e) == [status |-> "rejected", error |-> e, value |-> <<>>]

\* this.maxRetries = options.maxRetries ?? 3
maxRetries == OrDefault(options.maxRetries, DEFAULT_MAX_RETRIES)

\* this.retryDelay = options.retryDelay ?? 1000
retryDelay == OrDefault(options.retryDelay, DEFAULT_RETRY_DELAY)

\* sequences over S without repetition, of length at most n
RECURSIVE ListingsUpTo(_, _)
ListingsUpTo(S, n) ==
    IF n = 0 THEN {<<>>}
    ELSE LET shorter == ListingsUpTo(S, n - 1)
         IN  shorter \cup {Append(l, x) : l \in {m \in shorter : Len(m) = n - 1},
                                          x \in S}

NoRepeat(l) == \A i, j \in 1..Len(l) : i # j => l[i] # l[j]

Listings(S, n) == {l \in ListingsUpTo(S, n) : NoRepeat(l)}

\* the directories of at most n entries named in S
Directories(S, n) == {d \in SUBSET S : Cardinality(d) <= n}

\* what readdir may return for the directory d: its names once each, in any order
Readdir(d) == {l \in Listings(d, Cardinality(d)) : Len(l) = Cardinality(d)}

AllOptions ==
    [maxRetries : {{}} \cup {{r} : r \in (-1)..MaxRetriesBound},
     retryDelay : {{}, {10}},
     verifyUploads : {{}, {TRUE}, {FALSE}},
     categoryId : {{}, {"28"}},
     privacyStatus : {{}, {"public"}}]

\* the options of the runs: the retry options in every combination with the
\* others omitted, and the others in every combination with the retry
\* options omitted
OptionSets ==
    {o \in AllOptions :
        \/ o.maxRetries = {} /\ o.retryDelay = {}
        \/ o.verifyUploads = {} /\ o.categoryId = {} /\ o.privacyStatus = {}}

\* the state shared by every start: nothing has run yet
Fresh ==
    /\ videoFiles = <<>>
    /\ idx = 0
    /\ description = <<>>
    /\ warned = <<>>
    /\ descMissing = <<>>
    /\ attempt = 0
    /\ request = NoRequest
    /\ insertCount = 0
    /\ touched = {}
    /\ inserted = <<>>
    /\ delays = <<>>
    /\ lastError = NoError
    /\ response = NoResponse
    /\ responses = <<>>
    /\ result = Pending
    /\ authCached = FALSE
    /\ credReads = 0
    /\ tokenReads = 0
    /\ tokenWrites = 0
    /\ tokenPresent = FALSE
    /\ vAttempt = 0
    /\ vListCalls = 0
    /\ vWaits = <<>>
    /\ vLastError = NoError
    /\ vFetched = {}
    /\ vCalls = <<>>

\* an OAuth2Client: its identity and the token attached to it
NoClient == [id |-> 0, credentials |-> "none"]
PresetClient == [id |-> 0, credentials |-> "preset"]

\* path.join(path.dirname(credentialsPath), 'token.json') and an explicit path
DERIVED_TOKEN_PATH == "conf/token.json"
EXPLICIT_TOKEN_PATH == "elsewhere/tok.json"
TokenPaths == {DERIVED_TOKEN_PATH, EXPLICIT_TOKEN_PATH}

\* no authenticator is stepped through: the state of the step-by-step
\* authenticator in the runs that are not about it
NoGetAuth ==
    /\ gaPreconfiguredAuth = {}
    /\ gaTokenPath = ""
    /\ gaAuth = {}
    /\ gaPc = "idle"
    /\ gaClient = NoClient
    /\ gaEvents = <<>>
    /\ gaCalls = 0
    /\ gaCreated = 0
    /\ gaOutcome = "none"
    /\ gaReturned = <<>>
    /\ tokenFiles = [p \in TokenPaths |-> "missing"]

\* splitVideoPrecise is not running
NoSplit ==
    /\ spOptions = {}
    /\ spPc = "done"
    /\ spDuration = 0
    /\ spStart = 0
    /\ spRemaining = 0
    /\ spI = 0
    /\ spCommands = <<>>
    /\ spActual = <<>>
    /\ spResult = "none"

\* splitVideoPreciseCheck is not running
NoCheck ==
    /\ ckThreshold = {}
    /\ ckOthers = <<>>
    /\ ckPc = "done"
    /\ ckSum = 0
    /\ ckResult = "none"

\* concatMts is not running
NoConcat ==
    /\ ccSourceDir = {}
    /\ ccDestExists = FALSE
    /\ ccPc = "done"
    /\ ccFiles = <<>>
    /\ ccEvents = <<>>
    /\ ccProbed = 0
    /\ ccSum = 0
    /\ ccDiff = 0
    /\ ccLog = "none"
    /\ ccResult = "none"

\* generateDescription is not running
NoGenerate ==
    /\ gdMaxRetries = {}
    /\ gdPc = "done"
    /\ gdAttempt = 0
    /\ gdExits = <<>>
    /\ gdOutput = <<>>
    /\ gdWaits = <<>>
    /\ gdReturned = <<>>
    /\ gdResult = "none"

\* batchGenerateDescriptions is not running
NoDescribe ==
    /\ bgTransDir = {}
    /\ bgExisting = {}
    /\ bgWritten = {}
    /\ bgTemp = {}
    /\ bgJobs = <<>>
    /\ bgNow = 0
    /\ bgErrors = <<>>
    /\ bgPc = "done"
    /\ bgResult = "none"

\* none of the media and description utilities is running
NoUtil ==
    /\ NoCheck
    /\ NoConcat
    /\ NoGenerate
    /\ NoDescribe

\* new YouTubeBatchUploader(options), before uploadBatch()
Init ==
    /\ Fresh
    /\ NoGetAuth
    /\ NoSplit
    /\ NoUtil
    /\ pc = "start"
    /\ caller = "uploader"
    /\ options \in OptionSets
    /\ videosDir \in Directories(UploadNames, MaxFiles)
    /\ vPreconfigured = FALSE
    /\ vMaxAttempts = 0
    /\ vDelayMs = 0
    /\ vExpected = NoExpected

\* ------------------------------------------------------------ uploadBatch
\* uploadBatch, up to the first iteration of the loop
FindVideoFiles ==
    /\ pc = "start"
    /\ caller = "uploader"
    /\ \E files \in Readdir(videosDir) :
       LET found == FindVideoFilesOf(files)
       IN  /\ videoFiles' = found
           /\ IF Len(found) = 0
              THEN /\ result' = Returned(<<>>)
                   /\ pc' = "done"
                   /\ idx' = idx
              ELSE /\ result' = result
                   /\ pc' = "readDesc"
                   /\ idx' = 1
    /\ UNCHANGED <<options, videosDir, description, warned, descMissing, attempt, request,
                   insertCount, touched, inserted, delays, lastError, response,
                   responses, caller>>
    /\ UNCHANGED <<authVars, verVars>>
    /\ UNCHANGED <<gaVars, spVars, utilVars>>

\* the head of one loop iteration without the try/catch around the read
ReadDescriptionUncaught ==
    /\ pc = "readDesc"
    /\ \E readable \in BOOLEAN :
         LET file == videoFiles[idx]
         IN  IF readable
             THEN /\ description' = DescContent(DescEnPath(file))
                  /\ UNCHANGED <<warned, descMissing>>
                  /\ pc' = "getAuth"
                  /\ result' = result
             ELSE /\ description' = description
                  /\ warned' = warned
                  /\ descMissing' = Append(descMissing, file)
                  /\ pc' = "done"
                  /\ result' = Rejected(Err("description unreadable", 0, 0))
    /\ UNCHANGED <<options, videosDir, videoFiles, idx, attempt, request,
                   insertCount, touched, inserted, delays, lastError, response,
                   responses, caller>>
    /\ UNCHANGED <<authVars, verVars>>
    /\ UNCHANGED <<gaVars, spVars, utilVars>>

\* the head of one loop iteration: read the description, warn if that fails
ReadDescription ==
    /\ pc = "readDesc"
    /\ \E readable \in BOOLEAN :
         LET file == videoFiles[idx]
         IN  IF readable
             THEN /\ description' = DescContent(DescEnPath(file))
                  /\ UNCHANGED <<warned, descMissing>>
             ELSE /\ description' = <<>>
                  /\ warned' = Append(warned, file)
                  /\ descMissing' = Append(descMissing, file)
    /\ pc' = "getAuth"
    /\ UNCHANGED <<options, videosDir, videoFiles, idx, attempt, request,
                   insertCount, touched, inserted, delays, lastError, response,
                   responses, caller, result>>
    /\ UNCHANGED <<authVars, verVars>>
    /\ UNCHANGED <<gaVars, spVars, utilVars>>

\* ------------------------------------------------- control of the top call
\* the running call moves on to position p
Goto(p) ==
    /\ pc' = p
    /\ UNCHANGED <<result, responses, idx>>

\* an exception leaves uploadVideo / verifyVideo: nothing catches it, so the
\* top-level call rejects with it
RejectWith(e) ==
    /\ pc' = "done"
    /\ result' = Rejected(e)
    /\ UNCHANGED <<responses, idx>>

\* uploadVideo returns: responses.push(response), then the next iteration or
\* the return of uploadBatch
ReturnToBatch ==
    /\ responses' = Append(responses, response)
    /\ IF idx < Len(videoFiles)
       THEN /\ idx' = idx + 1
            /\ pc' = "readDesc"
            /\ result' = result
       ELSE /\ idx' = idx
            /\ pc' = "done"
            /\ result' = Returned(Append(responses, response))

\* --------------------------------------------------- YouTubeAuthenticator
\* what getAuth can meet: nothing but storeToken changes the token file, so
\* a token that was read or stored is read again by the next authenticator
AuthOutcomes ==
    IF tokenPresent
    THEN {"credentialsUnreadable", "tokenReused"}
    ELSE {"credentialsUnreadable", "tokenReused", "newToken",
          "exchangeFailed", "storeFailed"}

AuthSucceeds(out) == out \in {"tokenReused", "newToken"}

AuthError(out) == Err(out, 0, 0)

\* getAuth of an authenticator without cached client: read the credentials,
\* authorize (read the token, else getNewToken and storeToken)
Authorize(out) ==
    /\ credReads' = credReads + 1
    /\ tokenReads' = IF out = "credentialsUnreadable" THEN tokenReads ELSE tokenReads + 1
    /\ tokenWrites' = IF out = "newToken" THEN tokenWrites + 1 ELSE tokenWrites
    /\ tokenPresent' = (tokenPresent \/ out \in {"tokenReused", "newToken"})

\* ------------------------------------------------------------ uploadVideo
\* the arguments of uploadVideo with the fallbacks left out: an omitted
\* option reaches the request as the empty string
UploadParamsWithoutFallback ==
    [title |-> TitleOf(videoFiles[idx]),
     description |-> description,
     categoryId |-> OrDefault(options.categoryId, ""),
     privacyStatus |-> OrDefault(options.privacyStatus, "")]

\* the arguments uploadBatch hands to uploadVideo for the current file
UploadParams ==
    [title |-> TitleOf(videoFiles[idx]),
     description |-> description,
     categoryId |-> OrIfFalsy(options.categoryId, CATEGORY_ID),
     privacyStatus |-> OrIfFalsy(options.privacyStatus, PRIVACY_STATUS)]

\* uploadVideoWithRetry is entered: attempt = 0 and the loop condition
EnterRetryLoop ==
    /\ attempt' = 0
    /\ insertCount' = 0
    /\ delays' = <<>>
    /\ lastError' = NoError
    /\ IF 0 <= maxRetries
       THEN Goto("insert")
       ELSE RejectWith(Err("Failed to upload video", 0, 0))

\* uploadVideo: await this.authenticator.getAuth()
UploaderGetAuth ==
    /\ pc = "getAuth"
    /\ IF authCached
       THEN /\ EnterRetryLoop
            /\ UNCHANGED authVars
       ELSE \E out \in AuthOutcomes :
              /\ Authorize(out)
              /\ authCached' = AuthSucceeds(out)
              /\ IF AuthSucceeds(out)
                 THEN EnterRetryLoop
                 ELSE /\ RejectWith(AuthError(out))
                      /\ UNCHANGED <<attempt, insertCount, delays, lastError>>
    /\ UNCHANGED <<options, videosDir, videoFiles, description, warned, descMissing,
                   request, touched, inserted, response, caller>>
    /\ UNCHANGED verVars
    /\ UNCHANGED <<gaVars, spVars, utilVars>>

InsertOutcomes == {"ok", "okWithoutId", "status403", "status500", "threw"}

\* response.status of the response videos.insert resolves with
StatusOf(out) ==
    CASE out = "status403" -> 403
      [] out = "status500" -> 500
      [] OTHER -> 200

\* the try block throws: the call rejected, or response.status >= 400
InsertFails(out) == out = "threw" \/ StatusOf(out) >= 400

\* the error the try block of uploadVideoWithRetry throws
InsertError(out, att) ==
    IF out = "threw" THEN Err("insert threw", att, 0)
    ELSE Err("YouTube API error", att, StatusOf(out))

\* the catch block, giving up one attempt early
CatchInsertErrorOneShort(e) ==
    /\ lastError' = e
    /\ IF attempt + 1 < maxRetries
       THEN /\ delays' = Append(delays, retryDelay * Pow2(attempt))
            /\ Goto("backoff")
       ELSE /\ delays' = delays
            /\ RejectWith(e)

\* the catch block, with a delay that grows linearly
CatchInsertErrorLinear(e) ==
    /\ lastError' = e
    /\ IF attempt < maxRetries
       THEN /\ delays' = Append(delays, retryDelay * (attempt + 1))
            /\ Goto("backoff")
       ELSE /\ delays' = delays
            /\ RejectWith(e)

\* the catch block, the loop of uploadBatch going on to the next file when
\* the retries are used up
CatchInsertErrorContinue(e) ==
    /\ lastError' = e
    /\ IF attempt < maxRetries
       THEN /\ delays' = Append(delays, retryDelay * Pow2(attempt))
            /\ Goto("backoff")
       ELSE /\ delays' = delays
            /\ responses' = responses
            /\ IF idx < Len(videoFiles)
               THEN /\ idx' = idx + 1
                    /\ pc' = "readDesc"
                    /\ result' = result
               ELSE /\ idx' = idx
                    /\ pc' = "done"
                    /\ result' = Returned(responses)

\* the catch block, re-throwing a client error (status 4xx) at once
CatchInsertErrorNoRetryOn4xx(e) ==
    /\ lastError' = e
    /\ IF attempt < maxRetries /\ e.status \notin 400..499
       THEN /\ delays' = Append(delays, retryDelay * Pow2(attempt))
            /\ Goto("backoff")
       ELSE /\ delays' = delays
            /\ RejectWith(e)

\* the catch block leaving the loop instead of re-throwing when the retries
\* are used up, so that the throw after the loop is what ends the call
CatchInsertErrorLeavingLoop(e) ==
    /\ lastError' = e
    /\ IF attempt < maxRetries
       THEN /\ delays' = Append(delays, retryDelay * Pow2(attempt))
            /\ Goto("backoff")
       ELSE /\ delays' = delays
            /\ RejectWith(Err("Failed to upload video", 0, 0))

\* the catch block of uploadVideoWithRetry
CatchInsertError(e) ==
    /\ lastError' = e
    /\ IF attempt < maxRetries
       THEN /\ delays' = Append(delays, retryDelay * Pow2(attempt))
            /\ Goto("backoff")
       ELSE /\ delays' = delays
            /\ RejectWith(e)

\* the request of the current file
RequestOf(params, file) ==
    [title |-> params.title,
     description |-> params.description,
     categoryId |-> params.categoryId,
     privacyStatus |-> params.privacyStatus,
     file |-> file]

\* one pass of the try block: service.videos.insert and the status check;
\* on return the frame of uploadVideoWithRetry, with its locals, is gone
InsertCall ==
    /\ pc = "insert"
    /\ request' = RequestOf(UploadParams, videoFiles[idx])
    /\ touched' = touched \cup {idx}
    /\ \E out \in InsertOutcomes :
         IF InsertFails(out)
         THEN /\ CatchInsertError(InsertError(out, attempt))
              /\ insertCount' = insertCount + 1
              /\ UNCHANGED <<response, inserted, attempt>>
         ELSE /\ response' = [status |-> StatusOf(out),
                              id |-> IF out = "ok" THEN <<"i", "d", ":">> \o videoFiles[idx] ELSE <<>>,
                              file |-> videoFiles[idx]]
              /\ inserted' = Append(inserted, RequestOf(UploadParams, videoFiles[idx]))
              /\ Goto("uploaded")
              /\ attempt' = 0
              /\ insertCount' = 0
              /\ delays' = <<>>
              /\ lastError' = NoError
    /\ UNCHANGED <<options, videosDir, videoFiles, description, warned, descMissing, caller>>
    /\ UNCHANGED <<authVars, verVars>>
    /\ UNCHANGED <<gaVars, spVars, utilVars>>

\* the timer of the catch block fires: attempt++ and the loop condition
BackoffElapsed ==
    /\ pc = "backoff"
    /\ attempt' = attempt + 1
    /\ lastError' = NoError
    /\ IF attempt + 1 <= maxRetries
       THEN Goto("insert")
       ELSE RejectWith(Err("Failed to upload video", 0, 0))
    /\ UNCHANGED <<options, videosDir, videoFiles, description, warned, descMissing,
                   request, insertCount, touched, inserted, delays, response,
                   caller>>
    /\ UNCHANGED <<authVars, verVars>>
    /\ UNCHANGED <<gaVars, spVars, utilVars>>

\* verification that is off unless verifyUploads switches it on
VerifyEnabledOnlyIfSet == OrDefault(options.verifyUploads, FALSE)

\* verify ?? this.options.verifyUploads ?? true, uploadBatch passing no verify
VerifyEnabled == OrDefault(options.verifyUploads, TRUE)

\* uploadVideo after uploadVideoWithRetry returned: verify or return
AfterUpload ==
    /\ pc = "uploaded"
    /\ IF VerifyEnabled /\ response.id # <<>>
       THEN /\ vPreconfigured' = FALSE
            /\ vMaxAttempts' = DEFAULT_MAX_ATTEMPTS
            /\ vDelayMs' = DEFAULT_DELAY_MS
            /\ vExpected' = UploadParams
            /\ vAttempt' = 0
            /\ vListCalls' = 0
            /\ vWaits' = <<>>
            /\ vLastError' = NoError
            /\ vFetched' = {}
            /\ vCalls' = Append(vCalls, <<idx, UploadParams>>)
            /\ Goto("v_getAuth")
       ELSE /\ ReturnToBatch
            /\ UNCHANGED verVars
    /\ UNCHANGED <<options, videosDir, videoFiles, description, warned, descMissing,
                   attempt, request, insertCount, touched, inserted, delays,
                   lastError, response, caller>>
    /\ UNCHANGED authVars
    /\ UNCHANGED <<gaVars, spVars, utilVars>>

\* ---------------------------------------------------- YouTubeUploadVerifier
Resolved == [status |-> "resolved", error |-> NoError, value |-> <<>>]

\* verifyVideo returns normally; in uploadVideo the verifier, with the locals
\* of its call, is then gone
VerifyResolves(rec) ==
    IF caller = "uploader"
    THEN /\ ReturnToBatch
         /\ vAttempt' = 0
         /\ vListCalls' = 0
         /\ vWaits' = <<>>
         /\ vFetched' = {}
         /\ vLastError' = vLastError
    ELSE /\ pc' = "done"
         /\ result' = Resolved
         /\ UNCHANGED <<responses, idx>>
         /\ vAttempt' = vAttempt
         /\ vListCalls' = vListCalls + 1
         /\ vWaits' = vWaits
         /\ vFetched' = {rec}
         /\ vLastError' = vLastError

\* fetchVideoData is entered: attempt = 1 and the loop condition
EnterFetchLoop ==
    /\ vAttempt' = 1
    /\ IF 1 <= vMaxAttempts
       THEN Goto("v_list")
       ELSE RejectWith(Err("Failed to fetch video data", 0, 0))

\* verifyVideo: await this.authenticator.getAuth(); the verifier built by
\* uploadVideo has an authenticator of its own, which has nothing cached
VerifierGetAuth ==
    /\ pc = "v_getAuth"
    /\ IF vPreconfigured
       THEN /\ EnterFetchLoop
            /\ UNCHANGED <<credReads, tokenReads, tokenWrites, tokenPresent>>
       ELSE \E out \in AuthOutcomes :
              /\ Authorize(out)
              /\ IF AuthSucceeds(out)
                 THEN EnterFetchLoop
                 ELSE /\ RejectWith(AuthError(out))
                      /\ vAttempt' = vAttempt
    /\ UNCHANGED <<vPreconfigured, vMaxAttempts, vDelayMs, vExpected,
                   vListCalls, vWaits, vLastError, vFetched, vCalls>>
    /\ UNCHANGED <<upVars, caller, authCached>>
    /\ UNCHANGED <<gaVars, spVars, utilVars>>

\* a value that differs from v
OtherText(v) == v \o <<"~">>
OtherString(v) == IF v = "other" THEN "another" ELSE "other"

MetadataFields == {"title", "description", "categoryId", "privacyStatus"}

\* the sets of fields in which a returned record may differ from expected:
\* any set for a direct verifyVideo call, at most one field in a batch run
FieldSets ==
    {D \in SUBSET MetadataFields : caller = "direct" \/ Cardinality(D) <= 1}

\* the record the platform returns, differing from expected in the fields of D
FetchedRecord(expected, D) ==
    [title |-> IF "title" \in D THEN OtherText(expected.title) ELSE expected.title,
     description |-> IF "description" \in D THEN OtherText(expected.description)
                     ELSE expected.description,
     categoryId |-> IF "categoryId" \in D THEN OtherString(expected.categoryId)
                    ELSE expected.categoryId,
     privacyStatus |-> IF "privacyStatus" \in D THEN OtherString(expected.privacyStatus)
                       ELSE expected.privacyStatus]

\* responses of videos.list that make the try block of fetchVideoData throw
ListFailures == {"threw", "empty", "nullItem", "noSnippet", "noStatus"}

\* the error the try block of fetchVideoData throws
ListError(out, att) ==
    CASE out = "threw" -> Err("list threw", att, 0)
      [] out = "empty" -> Err("not found on channel", att, 0)
      [] out = "nullItem" -> Err("not found in response", att, 0)
      [] OTHER -> Err("missing snippet or status", att, 0)

\* the comparisons with the description compared before the title
ValidationErrorDescriptionFirst(rec, expected) ==
    IF rec.description # expected.description THEN Err("Description mismatch", 0, 0)
    ELSE IF rec.title # expected.title THEN Err("Title mismatch", 0, 0)
    ELSE IF rec.categoryId # expected.categoryId THEN Err("Category mismatch", 0, 0)
    ELSE IF rec.privacyStatus # expected.privacyStatus THEN Err("Privacy mismatch", 0, 0)
    ELSE NoError

\* the comparisons of verifyVideo, in their order: the first mismatch's error
ValidationError(rec, expected) ==
    IF rec.title # expected.title THEN Err("Title mismatch", 0, 0)
    ELSE IF rec.description # expected.description THEN Err("Description mismatch", 0, 0)
    ELSE IF rec.categoryId # expected.categoryId THEN Err("Category mismatch", 0, 0)
    ELSE IF rec.privacyStatus # expected.privacyStatus THEN Err("Privacy mismatch", 0, 0)
    ELSE NoError

\* the catch block, re-throwing at once what is no fetch failure
CatchListErrorFetchOnly(e) ==
    /\ vLastError' = e
    /\ IF vAttempt = vMaxAttempts
          \/ e.kind \in {"not found in response", "missing snippet or status"}
       THEN /\ RejectWith(e)
            /\ vWaits' = vWaits
       ELSE /\ vWaits' = Append(vWaits, vDelayMs)
            /\ Goto("v_wait")

\* the catch block, with a delay that doubles from attempt to attempt
CatchListErrorWithBackoff(e) ==
    /\ vLastError' = e
    /\ IF vAttempt = vMaxAttempts
       THEN /\ RejectWith(e)
            /\ vWaits' = vWaits
       ELSE /\ vWaits' = Append(vWaits, vDelayMs * Pow2(vAttempt - 1))
            /\ Goto("v_wait")

\* the catch block of fetchVideoData
CatchListError(e) ==
    /\ vLastError' = e
    /\ IF vAttempt = vMaxAttempts
       THEN /\ RejectWith(e)
            /\ vWaits' = vWaits
       ELSE /\ vWaits' = Append(vWaits, vDelayMs)
            /\ Goto("v_wait")

\* the comparisons made inside the try block: the catch block gets the error
ThrowValidationErrorInsideTry(e) ==
    IF vAttempt = vMaxAttempts
    THEN /\ RejectWith(e)
         /\ UNCHANGED <<vLastError, vWaits>>
    ELSE /\ vLastError' = vLastError
         /\ vWaits' = Append(vWaits, vDelayMs)
         /\ Goto("v_wait")

\* a mismatch that uploadVideo catches and logs, the batch going on with the
\* response of the video
ThrowValidationErrorCaughtByUploader(e) ==
    /\ ReturnToBatch
    /\ UNCHANGED <<vLastError, vWaits>>

\* a throw of verifyVideo after fetchVideoData returned: outside the retry
\* loop, so nothing catches it
ThrowValidationError(e) ==
    /\ RejectWith(e)
    /\ UNCHANGED <<vLastError, vWaits>>

\* one pass of the try block of fetchVideoData; when it returns a record,
\* verifyVideo goes on to compare it without awaiting anything
ListCall ==
    /\ pc = "v_list"
    /\ \/ \E out \in ListFailures :
            /\ CatchListError(ListError(out, vAttempt))
            /\ vListCalls' = vListCalls + 1
            /\ UNCHANGED <<vFetched, vAttempt>>
       \/ \E D \in FieldSets :
            LET rec == FetchedRecord(vExpected, D)
            IN  IF ValidationError(rec, vExpected) = NoError
                   THEN VerifyResolves(rec)
                   ELSE /\ ThrowValidationError(ValidationError(rec, vExpected))
                        /\ vFetched' = {rec}
                        /\ vListCalls' = vListCalls + 1
                        /\ vAttempt' = vAttempt
    /\ UNCHANGED <<vPreconfigured, vMaxAttempts, vDelayMs, vExpected, vCalls>>
    /\ UNCHANGED <<upVars, caller, authVars>>
    /\ UNCHANGED <<gaVars, spVars, utilVars>>

\* the timer of the catch block fires: attempt++ and the loop condition
VerifierWaitElapsed ==
    /\ pc = "v_wait"
    /\ vAttempt' = vAttempt + 1
    /\ vLastError' = NoError
    /\ IF vAttempt + 1 <= vMaxAttempts
       THEN Goto("v_list")
       ELSE RejectWith(Err("Failed to fetch video data", 0, 0))
    /\ UNCHANGED <<vPreconfigured, vMaxAttempts, vDelayMs, vExpected,
                   vListCalls, vWaits, vFetched, vCalls>>
    /\ UNCHANGED <<upVars, caller, authVars>>
    /\ UNCHANGED <<gaVars, spVars, utilVars>>

\* ------------------------------------- YouTubeAuthenticator, step by step
\* the tokenPath argument of the constructor: omitted, empty or a path
TokenPathArgs == {{}, {""}, {EXPLICIT_TOKEN_PATH}}

\* this.tokenPath = tokenPath || path.join(path.dirname(credentialsPath), 'token.json')
TokenPathOf(arg) == OrIfFalsy(arg, DERIVED_TOKEN_PATH)

\* what a token file can hold before the authenticator writes it; an expired
\* token parses like a valid one
TokenContents == {"missing", "unparseable", "valid", "expired"}

\* Bun.file(tokenPath).text() and JSON.parse(token) both succeed
TokenParses(content) == content \in {"valid", "expired", "fresh"}

\* getAuth returns the client c
GaReturn(c) ==
    /\ gaPc' = "idle"
    /\ gaOutcome' = "returned"
    /\ gaReturned' = Append(gaReturned, c)

\* getAuth rejects
GaReject(why) ==
    /\ gaPc' = "idle"
    /\ gaOutcome' = why
    /\ gaReturned' = gaReturned

\* getAuth without the test of this.auth: every call of an authenticator
\* built from paths authorizes anew
GetAuthWithoutCache ==
    /\ gaPc = "idle"
    /\ gaCalls < MaxGetAuthCalls
    /\ gaCalls' = gaCalls + 1
    /\ gaEvents' = <<>>
    /\ IF gaPreconfiguredAuth # {}
       THEN GaReturn(CHOOSE c \in gaPreconfiguredAuth : TRUE)
       ELSE /\ gaPc' = "readCredentials"
            /\ gaOutcome' = "running"
            /\ gaReturned' = gaReturned
    /\ UNCHANGED <<gaPreconfiguredAuth, gaTokenPath, gaAuth, gaClient, gaCreated,
                   tokenFiles>>
    /\ UNCHANGED <<batchVars, spVars, utilVars>>

\* getAuth up to its first await
GetAuth ==
    /\ gaPc = "idle"
    /\ gaCalls < MaxGetAuthCalls
    /\ gaCalls' = gaCalls + 1
    /\ gaEvents' = <<>>
    /\ IF gaPreconfiguredAuth # {}
       THEN GaReturn(CHOOSE c \in gaPreconfiguredAuth : TRUE)
       ELSE IF gaAuth # {}
       THEN GaReturn(CHOOSE c \in gaAuth : TRUE)
       ELSE /\ gaPc' = "readCredentials"
            /\ gaOutcome' = "running"
            /\ gaReturned' = gaReturned
    /\ UNCHANGED <<gaPreconfiguredAuth, gaTokenPath, gaAuth, gaClient, gaCreated,
                   tokenFiles>>
    /\ UNCHANGED <<batchVars, spVars, utilVars>>

\* the credentials file was read: JSON.parse, then authorize up to its await
ReadCredentials ==
    /\ gaPc = "readCredentials"
    /\ gaEvents' = Append(gaEvents, "readCredentials")
    /\ \E readable \in BOOLEAN :
         IF readable
         THEN /\ gaCreated' = gaCreated + 1
              /\ gaClient' = [id |-> gaCreated + 1, credentials |-> "none"]
              /\ gaPc' = "readToken"
              /\ UNCHANGED <<gaOutcome, gaReturned>>
         ELSE /\ GaReject("credentialsUnreadable")
              /\ UNCHANGED <<gaCreated, gaClient>>
    /\ UNCHANGED <<gaPreconfiguredAuth, gaTokenPath, gaAuth, gaCalls, tokenFiles>>
    /\ UNCHANGED <<batchVars, spVars, utilVars>>

\* the token file was read, an expired token sending authorize into getNewToken
ReadTokenCheckingExpiry ==
    /\ gaPc = "readToken"
    /\ LET token == tokenFiles[gaTokenPath]
       IN  IF TokenParses(token) /\ token # "expired"
           THEN /\ gaEvents' = Append(gaEvents, "readToken")
                /\ gaClient' = [gaClient EXCEPT !.credentials = token]
                /\ gaAuth' = {[gaClient EXCEPT !.credentials = token]}
                /\ GaReturn([gaClient EXCEPT !.credentials = token])
           ELSE /\ gaEvents' = gaEvents \o <<"readToken", "printUrl", "question">>
                /\ gaPc' = "question"
                /\ UNCHANGED <<gaClient, gaAuth, gaOutcome, gaReturned>>
    /\ UNCHANGED <<gaPreconfiguredAuth, gaTokenPath, gaCalls, gaCreated, tokenFiles>>
    /\ UNCHANGED <<batchVars, spVars, utilVars>>

\* the token file was read: authorize returns the client with the token, or
\* its catch block runs getNewToken up to the await of the console line
ReadToken ==
    /\ gaPc = "readToken"
    /\ LET token == tokenFiles[gaTokenPath]
       IN  IF TokenParses(token)
           THEN /\ gaEvents' = Append(gaEvents, "readToken")
                /\ gaClient' = [gaClient EXCEPT !.credentials = token]
                /\ gaAuth' = {[gaClient EXCEPT !.credentials = token]}
                /\ GaReturn([gaClient EXCEPT !.credentials = token])
           ELSE /\ gaEvents' = gaEvents \o <<"readToken", "printUrl", "question">>
                /\ gaPc' = "question"
                /\ UNCHANGED <<gaClient, gaAuth, gaOutcome, gaReturned>>
    /\ UNCHANGED <<gaPreconfiguredAuth, gaTokenPath, gaCalls, gaCreated, tokenFiles>>
    /\ UNCHANGED <<batchVars, spVars, utilVars>>

\* a line was entered on the console: rl.close, then oauth2Client.getToken(code)
LineEntered ==
    /\ gaPc = "question"
    /\ gaEvents' = gaEvents \o <<"lineRead", "getToken">>
    /\ gaPc' = "getToken"
    /\ UNCHANGED <<gaPreconfiguredAuth, gaTokenPath, gaAuth, gaClient, gaCalls,
                   gaCreated, gaOutcome, gaReturned, tokenFiles>>
    /\ UNCHANGED <<batchVars, spVars, utilVars>>

\* getToken settled: the tokens are attached and storeToken starts to write
TokenExchanged ==
    /\ gaPc = "getToken"
    /\ \E exchanged \in BOOLEAN :
         IF exchanged
         THEN /\ gaClient' = [gaClient EXCEPT !.credentials = "fresh"]
              /\ gaPc' = "storeToken"
              /\ UNCHANGED <<gaOutcome, gaReturned>>
         ELSE /\ GaReject("exchangeFailed")
              /\ gaClient' = gaClient
    /\ UNCHANGED <<gaPreconfiguredAuth, gaTokenPath, gaAuth, gaEvents, gaCalls,
                   gaCreated, tokenFiles>>
    /\ UNCHANGED <<batchVars, spVars, utilVars>>

\* Bun.write settled, getAuth returning the client even when it failed
TokenStoredIgnoringFailure ==
    /\ gaPc = "storeToken"
    /\ \E written \in BOOLEAN :
         /\ IF written
            THEN /\ tokenFiles' = [tokenFiles EXCEPT ![gaTokenPath] = "fresh"]
                 /\ gaEvents' = Append(gaEvents, "writeToken")
            ELSE UNCHANGED <<tokenFiles, gaEvents>>
         /\ gaAuth' = {gaClient}
         /\ GaReturn(gaClient)
    /\ UNCHANGED <<gaPreconfiguredAuth, gaTokenPath, gaClient, gaCalls, gaCreated>>
    /\ UNCHANGED <<batchVars, spVars, utilVars>>

\* Bun.write settled: getNewToken and authorize return, this.auth is set
TokenStored ==
    /\ gaPc = "storeToken"
    /\ \E written \in BOOLEAN :
         IF written
         THEN /\ tokenFiles' = [tokenFiles EXCEPT ![gaTokenPath] = "fresh"]
              /\ gaEvents' = Append(gaEvents, "writeToken")
              /\ gaAuth' = {gaClient}
              /\ GaReturn(gaClient)
         ELSE /\ GaReject("storeFailed")
              /\ UNCHANGED <<tokenFiles, gaEvents, gaAuth>>
    /\ UNCHANGED <<gaPreconfiguredAuth, gaTokenPath, gaClient, gaCalls, gaCreated>>
    /\ UNCHANGED <<batchVars, spVars, utilVars>>

\* ------------------------------------------------------ splitVideoPrecise
DEFAULT_PARTS == 6

\* const parts = options.parts || 6
parts ==
    IF spOptions = {} \/ spOptions = {0} THEN DEFAULT_PARTS
    ELSE CHOOSE n \in spOptions : TRUE

\* the integer nearest to num / den, a tie going away from zero (den > 0)
RoundRatio(num, den) ==
    IF num >= 0 THEN (2 * num + den) \div (2 * den)
    ELSE 0 - ((2 * (0 - num) + den) \div (2 * den))

\* x.toFixed(3) of x microseconds: the decimal printed, in milliseconds
ToFixed3(x) == RoundRatio(x, 1000)

\* the ffmpeg command of part i, every part getting the same share of the
\* source duration
FfmpegCmdEqualShares(i, start, remaining) ==
    [part |-> i,
     ss |-> ToFixed3(start),
     t |-> IF i = parts THEN {} ELSE {RoundRatio(spDuration, 1000 * parts)}]

\* the ffmpeg command of part i: -ss startStr, and -t partDurationStr unless
\* the part is the last one
FfmpegCmd(i, start, remaining) ==
    [part |-> i,
     ss |-> ToFixed3(start),
     t |-> IF i = parts THEN {} ELSE {RoundRatio(remaining, 1000 * (parts - (i - 1)))}]

\* how far the duration of a written part may be off what was asked for
Deviations == {-400, 0, 300500}

\* what ffprobe may report for the part written by cmd: about the duration
\* asked for, or about the rest of the source when none was asked for
MeasuredDurations(cmd) ==
    LET asked == IF cmd.t = {} THEN spDuration - 1000 * cmd.ss
                 ELSE 1000 * (CHOOSE ms \in cmd.t : TRUE)
    IN  {d \in {asked + dev : dev \in Deviations} : d >= 0}

\* the loop condition with i = n: spawn ffmpeg for part n, or return
SplitLoop(n, start, remaining) ==
    IF n <= parts
    THEN /\ spCommands' = Append(spCommands, FfmpegCmd(n, start, remaining))
         /\ spPc' = "ffmpeg"
         /\ spResult' = spResult
    ELSE /\ spCommands' = spCommands
         /\ spPc' = "done"
         /\ spResult' = "resolved"

\* splitVideoPrecise up to the first spawn: mkdir, ffprobeDuration(srcFile)
SplitStart ==
    /\ spPc = "start"
    /\ \E probed \in BOOLEAN :
         IF probed
         THEN /\ spStart' = 0
              /\ spRemaining' = spDuration
              /\ spI' = 1
              /\ SplitLoop(1, 0, spDuration)
         ELSE /\ spPc' = "done"
              /\ spResult' = "Unable to get duration"
              /\ UNCHANGED <<spStart, spRemaining, spI, spCommands>>
    /\ UNCHANGED <<spOptions, spDuration, spActual>>
    /\ UNCHANGED <<batchVars, gaVars, utilVars>>

\* await proc.exited
FfmpegExited ==
    /\ spPc = "ffmpeg"
    /\ \E code \in {0, 1} :
         IF code # 0
         THEN /\ spPc' = "done"
              /\ spResult' = "ffmpeg failed"
         ELSE /\ spPc' = "probe"
              /\ spResult' = spResult
    /\ UNCHANGED <<spOptions, spDuration, spStart, spRemaining, spI, spCommands,
                   spActual>>
    /\ UNCHANGED <<batchVars, gaVars, utilVars>>

\* the end of the loop body advancing start by the duration that was asked
\* for instead of the measured one
PartProbedByRequest ==
    /\ spPc = "probe"
    /\ \/ /\ spPc' = "done"
          /\ spResult' = "Unable to get duration"
          /\ UNCHANGED <<spStart, spRemaining, spI, spCommands, spActual>>
       \/ \E actualDuration \in MeasuredDurations(spCommands[Len(spCommands)]) :
            LET cmd == spCommands[Len(spCommands)]
                asked == IF cmd.t = {} THEN actualDuration
                         ELSE 1000 * (CHOOSE ms \in cmd.t : TRUE)
            IN  /\ spActual' = Append(spActual, actualDuration)
                /\ spStart' = spStart + asked
                /\ spRemaining' = spRemaining - asked
                /\ spI' = spI + 1
                /\ SplitLoop(spI + 1, spStart + asked, spRemaining - asked)
    /\ UNCHANGED <<spOptions, spDuration>>
    /\ UNCHANGED <<batchVars, gaVars, utilVars>>

\* await ffprobeDuration(outFile), the end of the loop body, i++
PartProbed ==
    /\ spPc = "probe"
    /\ \/ /\ spPc' = "done"
          /\ spResult' = "Unable to get duration"
          /\ UNCHANGED <<spStart, spRemaining, spI, spCommands, spActual>>
       \/ \E actualDuration \in MeasuredDurations(spCommands[Len(spCommands)]) :
            /\ spActual' = Append(spActual, actualDuration)
            /\ spStart' = spStart + actualDuration
            /\ spRemaining' = spRemaining - actualDuration
            /\ spI' = spI + 1
            /\ SplitLoop(spI + 1, spStart + actualDuration, spRemaining - actualDuration)
    /\ UNCHANGED <<spOptions, spDuration>>
    /\ UNCHANGED <<batchVars, gaVars, utilVars>>

\* ------------------------------------------------- splitVideoPreciseCheck
DEFAULT_THRESHOLD == 10000

\* const threshold = options.threshold || 0.01, in microseconds
threshold ==
    IF ckThreshold = {} \/ ckThreshold = {0} THEN DEFAULT_THRESHOLD
    ELSE CHOOSE x \in ckThreshold : TRUE

\* Math.abs(x)
Abs(x) == IF x < 0 THEN 0 - x ELSE x

\* the sum of the first n elements of q
RECURSIVE SumTo(_, _)
SumTo(q, n) == IF n = 0 THEN 0 ELSE SumTo(q, n - 1) + q[n]

\* the part files splitVideoPreciseCheck finds in the videos directory: every
\* partN.MTS the split wrote and the ones that were there before
PartDurations == spActual \o ckOthers

\* splitVideoPreciseCheck({srcFile, videosDir, threshold}) after a split that
\* resolved: ffprobe of the source and of every part file, the sum, the
\* comparison
SplitCheck ==
    /\ spPc = "done"
    /\ spResult = "resolved"
    /\ ckPc = "start"
    /\ ckPc' = "done"
    /\ \E probed \in BOOLEAN :
         IF probed
         THEN LET sum == SumTo(PartDurations, Len(PartDurations))
                  diff == sum - spDuration
                  passed == Abs(diff) < threshold
              IN  /\ ckSum' = sum
                  /\ ckResult' = IF passed THEN "passed" ELSE "warning"
         ELSE /\ ckSum' = ckSum
              /\ ckResult' = "Unable to get duration"
    /\ UNCHANGED <<ckThreshold, ckOthers>>
    /\ UNCHANGED othersOfCheck

\* -------------------------------------------------------------- concatMts
CONCAT_TOLERANCE == 10000

\* names a source directory of a concatenation may hold
ConcatNames == {part1_MTS, part2_MTS, part10_MTS, part3_mp4}

\* .filter((f) => f.endsWith('.MTS'))
MtsFilesOf(d) == {f \in d : EndsWith(f, DOT_MTS)}

\* .sort() of distinct names: increasing by code units
RECURSIVE SortedByCodeUnits(_)
SortedByCodeUnits(S) ==
    IF S = {} THEN <<>>
    ELSE LET first == CHOOSE x \in S :
                        \A y \in S : CompareFilesLexicographic(x, y) <= 0
         IN  <<first>> \o SortedByCodeUnits(S \ {first})

\* what ffprobe reports for an input file: every file has its own duration
InputDuration(f) == 1000000 * Len(f) + 100 * PartNumber(f)

\* how far the duration of the written output may be off the sum of the
\* input durations
OutputDeviations == {-2000000, -10001, -10000, 0, 10000, 10001, 2000000}

ConcatReject(why) ==
    /\ ccPc' = "done"
    /\ ccResult' = why

\* readdir(sourceDir), filter, sort
ConcatReaddir ==
    /\ ccPc = "start"
    /\ \E ok \in BOOLEAN :
         IF ok
         THEN /\ ccFiles' = SortedByCodeUnits(MtsFilesOf(ccSourceDir))
              /\ ccPc' = "writeFile"
              /\ ccResult' = ccResult
         ELSE /\ ConcatReject("readdir failed")
              /\ ccFiles' = ccFiles
    /\ UNCHANGED <<ccSourceDir, ccDestExists, ccEvents, ccProbed, ccSum, ccDiff, ccLog>>
    /\ UNCHANGED othersOfConcat

\* await writeFile(myListPath, listContent): the manifest goes into destDir,
\* which writeFile does not create
ConcatWriteList ==
    /\ ccPc = "writeFile"
    /\ ccEvents' = Append(ccEvents, "writeFile")
    /\ IF ccDestExists
       THEN /\ ccPc' = "mkdir"
            /\ ccResult' = ccResult
       ELSE ConcatReject("ENOENT")
    /\ UNCHANGED <<ccSourceDir, ccDestExists, ccFiles, ccProbed, ccSum, ccDiff, ccLog>>
    /\ UNCHANGED othersOfConcat

\* await mkdir(destDir, { recursive: true })
ConcatMkdir ==
    /\ ccPc = "mkdir"
    /\ ccEvents' = Append(ccEvents, "mkdir")
    /\ ccDestExists' = TRUE
    /\ ccPc' = "ffmpeg"
    /\ UNCHANGED <<ccSourceDir, ccFiles, ccProbed, ccSum, ccDiff, ccLog, ccResult>>
    /\ UNCHANGED othersOfConcat

\* Bun.spawn(ffmpegCmd), await proc.exited
ConcatFfmpegExited ==
    /\ ccPc = "ffmpeg"
    /\ ccEvents' = Append(ccEvents, "ffmpeg")
    /\ \E code \in {0, 1} :
         IF code # 0
         THEN ConcatReject("ffmpeg failed")
         ELSE /\ ccPc' = "probeInputs"
              /\ ccResult' = ccResult
    /\ UNCHANGED <<ccSourceDir, ccDestExists, ccFiles, ccProbed, ccSum, ccDiff, ccLog>>
    /\ UNCHANGED othersOfConcat

\* one round of the duration loop: sum += await ffprobeDuration(fpath)
ConcatProbeInput ==
    /\ ccPc = "probeInputs"
    /\ ccProbed < Len(ccFiles)
    /\ \E probed \in BOOLEAN :
         IF probed
         THEN /\ ccSum' = ccSum + InputDuration(ccFiles[ccProbed + 1])
              /\ ccProbed' = ccProbed + 1
              /\ UNCHANGED <<ccPc, ccResult>>
         ELSE /\ ConcatReject("Unable to get duration")
              /\ UNCHANGED <<ccSum, ccProbed>>
    /\ UNCHANGED <<ccSourceDir, ccDestExists, ccFiles, ccEvents, ccDiff, ccLog>>
    /\ UNCHANGED othersOfConcat

\* if (diff > 0.01)
DurationWarning(diff) == diff > CONCAT_TOLERANCE

\* outDur = await ffprobeDuration(outputFile), diff = sum - outDur, the log
ConcatProbeOutput ==
    /\ ccPc = "probeInputs"
    /\ ccProbed = Len(ccFiles)
    /\ \/ /\ ConcatReject("Unable to get duration")
          /\ UNCHANGED <<ccDiff, ccLog>>
       \/ \E dev \in OutputDeviations :
            LET outDur == ccSum + dev
                diff == ccSum - outDur
            IN  /\ outDur >= 0
                /\ ccDiff' = diff
                /\ ccLog' = IF DurationWarning(diff) THEN "warn" ELSE "match"
                /\ ccPc' = "done"
                /\ ccResult' = "resolved"
    /\ UNCHANGED <<ccSourceDir, ccDestExists, ccFiles, ccEvents, ccProbed, ccSum>>
    /\ UNCHANGED othersOfConcat

\* ---------------------------------------------------- generateDescription
DEFAULT_GEN_RETRIES == 5
GEN_RETRY_WAIT == 1000

\* maxRetries = 5
genMaxRetries == OrDefault(gdMaxRetries, DEFAULT_GEN_RETRIES)

\* The output of the LLM CLI is a sequence of tokens: words ("a", "b"), a
\* blank, a code fence and the phrases the cleaning looks for.
BLANK == " "
FENCE == "fence"
GERMAN_MARKERS == {"Hier ist", "Hier kommt", "Die Beschreibung"}
ENGLISH_MARKERS == {"Here is"}

\* positions of the tokens of s that are in T
PositionsOf(s, T) == {i \in 1..Len(s) : s[i] \in T}

\* .replace(/^[\s\S]*?(?=marker)/, ''): drops what precedes the first marker
DropBeforeFirst(s, markers) ==
    LET at == PositionsOf(s, markers)
    IN  IF at = {} THEN s ELSE SubSeq(s, Min(at), Len(s))

\* .replace(/FENCE[\s\S]*?FENCE/g, ''): drops every fenced block, an unpaired
\* fence staying
RECURSIVE RemoveFences(_)
RemoveFences(s) ==
    LET at == PositionsOf(s, {FENCE})
    IN  IF Cardinality(at) < 2 THEN s
        ELSE LET i == Min(at)
                 j == Min(at \ {i})
             IN  SubSeq(s, 1, i - 1) \o RemoveFences(SubSeq(s, j + 1, Len(s)))

\* end of the run of blanks of s that starts after position i
RECURSIVE BlankRunEnd(_, _)
BlankRunEnd(s, i) ==
    IF i + 1 <= Len(s) /\ s[i + 1] = BLANK THEN BlankRunEnd(s, i + 1) ELSE i

\* .replace(/phrase:?c?\s*/i, ''): drops the first phrase and the blanks
\* that follow it
RemovePhrase(s, phrase) ==
    LET at == PositionsOf(s, {phrase})
    IN  IF at = {} THEN s
        ELSE LET i == Min(at)
             IN  SubSeq(s, 1, i - 1) \o SubSeq(s, BlankRunEnd(s, i) + 1, Len(s))

\* String.prototype.trim
RECURSIVE Trim(_)
Trim(s) ==
    IF s = <<>> THEN s
    ELSE IF Head(s) = BLANK THEN Trim(Tail(s))
    ELSE IF s[Len(s)] = BLANK THEN Trim(SubSeq(s, 1, Len(s) - 1))
    ELSE s

\* the post-processing of the output of a successful invocation
CleanOutput(output) ==
    Trim(RemovePhrase(RemovePhrase(RemoveFences(
        DropBeforeFirst(DropBeforeFirst(output, GERMAN_MARKERS), ENGLISH_MARKERS)),
        "Final Answer"), "Antwort"))

\* what the LLM CLI may print
GenOutputs ==
    {<<"a">>,
     <<"b", "Here is", BLANK, "a", FENCE, "b", FENCE, BLANK>>,
     <<BLANK, "Final Answer", BLANK, BLANK, "a", FENCE>>,
     <<"b", "Hier ist", "a", "Antwort", BLANK, "b", "Here is", "a">>}

\* the loop condition with attempt = n: spawn opencode, or throw after the loop
GenLoop(n) ==
    IF n <= genMaxRetries
    THEN /\ gdPc' = "running"
         /\ gdResult' = gdResult
    ELSE /\ gdPc' = "done"
         /\ gdResult' = "opencode failed after retries"

\* generateDescription(prompt, maxRetries) up to the first spawn
GenStart ==
    /\ gdPc = "start"
    /\ gdAttempt' = 1
    /\ GenLoop(1)
    /\ UNCHANGED <<gdMaxRetries, gdExits, gdOutput, gdWaits, gdReturned>>
    /\ UNCHANGED othersOfGenerate

\* the invocation ended, a failed one being followed by the wait whether or
\* not another attempt is left
GenExitedAlwaysWaiting ==
    /\ gdPc = "running"
    /\ \E exitCode \in {0, 1}, output \in GenOutputs :
         /\ gdExits' = Append(gdExits, exitCode)
         /\ gdOutput' = output
         /\ IF exitCode = 0
            THEN /\ gdReturned' = CleanOutput(output)
                 /\ gdPc' = "done"
                 /\ gdResult' = "returned"
                 /\ UNCHANGED <<gdAttempt, gdWaits>>
            ELSE /\ gdWaits' = Append(gdWaits, GEN_RETRY_WAIT)
                 /\ gdPc' = "wait"
                 /\ UNCHANGED <<gdAttempt, gdReturned, gdResult>>
    /\ UNCHANGED gdMaxRetries
    /\ UNCHANGED othersOfGenerate

\* await proc.exited with both streams read: return the cleaned output on
\* exit code 0; otherwise wait if attempt < maxRetries, else attempt++ and
\* the loop condition
GenExited ==
    /\ gdPc = "running"
    /\ \E exitCode \in {0, 1}, output \in GenOutputs :
         /\ gdExits' = Append(gdExits, exitCode)
         /\ gdOutput' = output
         /\ IF exitCode = 0
            THEN /\ gdReturned' = CleanOutput(output)
                 /\ gdPc' = "done"
                 /\ gdResult' = "returned"
                 /\ UNCHANGED <<gdAttempt, gdWaits>>
            ELSE IF gdAttempt < genMaxRetries
            THEN /\ gdWaits' = Append(gdWaits, GEN_RETRY_WAIT)
                 /\ gdPc' = "wait"
                 /\ UNCHANGED <<gdAttempt, gdReturned, gdResult>>
            ELSE /\ gdAttempt' = gdAttempt + 1
                 /\ GenLoop(gdAttempt + 1)
                 /\ UNCHANGED <<gdWaits, gdReturned>>
    /\ UNCHANGED gdMaxRetries
    /\ UNCHANGED othersOfGenerate

\* the timer of the wait fired: attempt++ and the loop condition
GenWaitElapsed ==
    /\ gdPc = "wait"
    /\ gdAttempt' = gdAttempt + 1
    /\ GenLoop(gdAttempt + 1)
    /\ UNCHANGED <<gdMaxRetries, gdExits, gdOutput, gdWaits, gdReturned>>
    /\ UNCHANGED othersOfGenerate

\* --------------------------------------------- batchGenerateDescriptions
DOT_SRT == <<".", "s", "r", "t">>
part1_srt == PART \o <<"1">> \o DOT_SRT
part2_srt == PART \o <<"2">> \o DOT_SRT

STAGGER == 1000
TICK == 500

\* names a transcripts directory may hold
TransNames == {part1_srt, part2_srt, part3_mp4}

\* readdirSync(transDir).filter(f => f.endsWith(".srt")).sort()
SrtFilesOf(d) == SortedByCodeUnits({f \in d : EndsWith(f, DOT_SRT)})

\* basename(srt, '.srt')
SrtBaseName(srt) ==
    IF EndsWith(srt, DOT_SRT) /\ srt # DOT_SRT
    THEN SubSeq(srt, 1, Len(srt) - Len(DOT_SRT)) ELSE srt

\* the rounds of the two nested loops in order: every transcript with "en",
\* then with "de"
RECURSIVE Rounds(_)
Rounds(files) ==
    IF files = <<>> THEN <<>>
    ELSE <<<<SrtBaseName(Head(files)), "en">>, <<SrtBaseName(Head(files)), "de">>>>
         \o Rounds(Tail(files))

\* the job closure of a round: its delay is captured, its timer is started
NewJob(round, delay) ==
    [base |-> round[1], language |-> round[2], delayMs |-> delay,
     state |-> "waiting", startedAt |-> -1]

\* the launches with the delay advanced in every round, skipped ones included
RECURSIVE LaunchCountingSkips(_, _, _)
LaunchCountingSkips(rounds, existing, delay) ==
    IF rounds = <<>> THEN <<>>
    ELSE IF Head(rounds) \in existing
         THEN LaunchCountingSkips(Tail(rounds), existing, delay + STAGGER)
         ELSE <<NewJob(Head(rounds), delay)>>
              \o LaunchCountingSkips(Tail(rounds), existing, delay + STAGGER)

\* the rounds from here on with let delay = delay: a round whose output file
\* exists is skipped (continue), any other pushes a job and adds 1000 to delay
RECURSIVE Launch(_, _, _)
Launch(rounds, existing, delay) ==
    IF rounds = <<>> THEN <<>>
    ELSE IF Head(rounds) \in existing
         THEN Launch(Tail(rounds), existing, delay)
         ELSE <<NewJob(Head(rounds), delay)>>
              \o Launch(Tail(rounds), existing, delay + STAGGER)

\* batchGenerateDescriptions(options) up to await Promise.all(jobs): all of it
\* is synchronous; every transcript gets its temporary file, skipped or not
DescribeLaunch ==
    /\ bgPc = "start"
    /\ \E ok \in BOOLEAN :
         IF ok
         THEN LET files == SrtFilesOf(bgTransDir)
              IN  /\ bgTemp' = {SrtBaseName(files[i]) : i \in 1..Len(files)}
                  /\ bgJobs' = Launch(Rounds(files), bgExisting, 0)
                  /\ bgPc' = "joined"
                  /\ bgResult' = bgResult
         ELSE /\ bgPc' = "done"
              /\ bgResult' = "readdir failed"
              /\ UNCHANGED <<bgTemp, bgJobs>>
    /\ UNCHANGED <<bgTransDir, bgExisting, bgWritten, bgNow, bgErrors>>
    /\ UNCHANGED othersOfDescribe

\* console.error('Error:', err); process.exit(1) in the catch block of
\* generateDescriptionsFromPaths: the process ends with job k failed
ExitOnFailure(k) ==
    /\ bgJobs' = [bgJobs EXCEPT ![k].state = "failed",
                                ![k].startedAt = IF @ = -1 THEN bgNow ELSE @]
    /\ bgErrors' = Append(bgErrors, [job |-> k, by |-> "generateDescriptionsFromPaths"])
    /\ bgPc' = "done"
    /\ bgResult' = "exited"

\* the timer of a job fired: generateDescriptionsFromPaths starts and reads
\* the temporary transcript file
DescribeTimerFired ==
    /\ bgPc = "joined"
    /\ \E k \in 1..Len(bgJobs) :
         /\ bgJobs[k].state = "waiting"
         /\ bgJobs[k].delayMs <= bgNow
         /\ IF bgJobs[k].base \in bgTemp
            THEN /\ bgJobs' = [bgJobs EXCEPT ![k].state = "running",
                                             ![k].startedAt = bgNow]
                 /\ UNCHANGED <<bgErrors, bgPc, bgResult>>
            ELSE ExitOnFailure(k)
    /\ UNCHANGED <<bgTransDir, bgExisting, bgWritten, bgTemp, bgNow>>
    /\ UNCHANGED othersOfDescribe

\* describeAndWrite of a running job ended: the description is written, the
\* call returns and the finally block unlinks the temporary file; or the
\* generation or the write failed
DescribeJobSettled ==
    /\ bgPc = "joined"
    /\ \E k \in 1..Len(bgJobs), ok \in BOOLEAN :
         /\ bgJobs[k].state = "running"
         /\ IF ok
            THEN /\ bgWritten' = bgWritten \cup {<<bgJobs[k].base, bgJobs[k].language>>}
                 /\ bgTemp' = bgTemp \ {bgJobs[k].base}
                 /\ bgJobs' = [bgJobs EXCEPT ![k].state = "finished"]
                 /\ UNCHANGED <<bgErrors, bgPc, bgResult>>
            ELSE /\ ExitOnFailure(k)
                 /\ UNCHANGED <<bgWritten, bgTemp>>
    /\ UNCHANGED <<bgTransDir, bgExisting, bgNow>>
    /\ UNCHANGED othersOfDescribe

\* time passes while a timer is pending, no timer being overdue
DescribeTick ==
    /\ bgPc = "joined"
    /\ \E k \in 1..Len(bgJobs) : bgJobs[k].state = "waiting"
    /\ \A k \in 1..Len(bgJobs) :
          bgJobs[k].state = "waiting" => bgJobs[k].delayMs > bgNow
    /\ bgNow' = bgNow + TICK
    /\ UNCHANGED <<bgTransDir, bgExisting, bgWritten, bgTemp, bgJobs, bgErrors, bgPc,
                   bgResult>>
    /\ UNCHANGED othersOfDescribe

\* await Promise.all(jobs) resolved: 'All jobs complete.'
DescribeAllSettled ==
    /\ bgPc = "joined"
    /\ \A k \in 1..Len(bgJobs) : bgJobs[k].state = "finished"
    /\ bgPc' = "done"
    /\ bgResult' = "resolved"
    /\ UNCHANGED <<bgTransDir, bgExisting, bgWritten, bgTemp, bgJobs, bgNow, bgErrors>>
    /\ UNCHANGED othersOfDescribe

\* ---------------------------------------------------------- specifications
Next ==
    \/ FindVideoFiles
    \/ ReadDescription
    \/ UploaderGetAuth
    \/ InsertCall
    \/ BackoffElapsed
    \/ AfterUpload
    \/ VerifierGetAuth
    \/ ListCall
    \/ VerifierWaitElapsed

\* uploadBatch() on a new YouTubeBatchUploader
Spec == Init /\ [][Next]_vars

DefaultOptions ==
    [maxRetries |-> {}, retryDelay |-> {}, verifyUploads |-> {},
     categoryId |-> {}, privacyStatus |-> {}]

ExpectedSamples ==
    {[title |-> TitleOf(part1_MTS), description |-> desc,
      categoryId |-> CATEGORY_ID, privacyStatus |-> PRIVACY_STATUS] :
        desc \in {<<>>, DescContent(DescEnPath(part1_MTS))}}

\* verifyVideo(videoId, expected, maxAttempts, delayMs) on a new verifier
InitVerify ==
    /\ Fresh
    /\ NoGetAuth
    /\ NoSplit
    /\ NoUtil
    /\ pc = "v_getAuth"
    /\ caller = "direct"
    /\ options = DefaultOptions
    /\ videosDir = {}
    /\ vPreconfigured \in BOOLEAN
    /\ vMaxAttempts \in (0..MaxAttemptsBound) \cup {DEFAULT_MAX_ATTEMPTS}
    /\ vDelayMs \in {DEFAULT_DELAY_MS, 10}
    /\ vExpected \in ExpectedSamples

NextVerify ==
    \/ VerifierGetAuth
    \/ ListCall
    \/ VerifierWaitElapsed

SpecVerify == InitVerify /\ [][NextVerify]_vars

\* findVideoFiles() on any directory
InitFind ==
    /\ Fresh
    /\ NoGetAuth
    /\ NoSplit
    /\ NoUtil
    /\ pc = "start"
    /\ caller = "uploader"
    /\ options = DefaultOptions
    /\ videosDir \in Directories(FindNames, MaxListing)
    /\ vPreconfigured = FALSE
    /\ vMaxAttempts = 0
    /\ vDelayMs = 0
    /\ vExpected = NoExpected

NextFind == FindVideoFiles

SpecFind == InitFind /\ [][NextFind]_vars

\* both retry loops with every limit: uploadBatch() on a new uploader, or
\* verifyVideo(videoId, expected, maxAttempts, delayMs) on a new verifier
InitRetryLoops == Init \/ InitVerify

SpecRetryLoops == InitRetryLoops /\ [][Next]_vars

\* the uploader and the verifier are not running
NoBatch ==
    /\ Fresh
    /\ pc = "done"
    /\ caller = "direct"
    /\ options = DefaultOptions
    /\ videosDir = {}
    /\ vPreconfigured = FALSE
    /\ vMaxAttempts = 0
    /\ vDelayMs = 0
    /\ vExpected = NoExpected

\* new YouTubeAuthenticator(auth) or new YouTubeAuthenticator(credentialsPath,
\* tokenPath), with any content of the token files
InitAuth ==
    /\ NoBatch
    /\ NoSplit
    /\ NoUtil
    /\ \/ /\ gaPreconfiguredAuth = {PresetClient}
          /\ gaTokenPath = ""
       \/ /\ gaPreconfiguredAuth = {}
          /\ gaTokenPath \in {TokenPathOf(arg) : arg \in TokenPathArgs}
    /\ gaAuth = {}
    /\ gaPc = "idle"
    /\ gaClient = NoClient
    /\ gaEvents = <<>>
    /\ gaCalls = 0
    /\ gaCreated = 0
    /\ gaOutcome = "none"
    /\ gaReturned = <<>>
    /\ tokenFiles \in [TokenPaths -> TokenContents]

NextAuth ==
    \/ GetAuth
    \/ ReadCredentials
    \/ ReadToken
    \/ LineEntered
    \/ TokenExchanged
    \/ TokenStored

\* getAuth() called again and again on one YouTubeAuthenticator
SpecAuth == InitAuth /\ [][NextAuth]_vars

\* the durations ffprobe may report for the source, in microseconds
SourceDurations == {10000000, 60000500}

\* the thresholds given to the check: none, 0, 0.2 s and 0.0001 s
ThresholdArgs == {{}, {0}, {200000}, {100}}

\* the output directory before the split: empty, or holding one part file of
\* 2 s with a number above the number of parts
OtherParts == {<<>>, <<2000000>>}

\* splitVideoPrecise(options) on a source of any of these durations, then
\* splitVideoPreciseCheck on its output
InitSplit ==
    /\ NoBatch
    /\ NoGetAuth
    /\ spOptions \in {{}} \cup {{n} : n \in 0..MaxParts}
    /\ spPc = "start"
    /\ spDuration \in SourceDurations
    /\ spStart = 0
    /\ spRemaining = 0
    /\ spI = 0
    /\ spCommands = <<>>
    /\ spActual = <<>>
    /\ spResult = "pending"
    /\ NoConcat
    /\ NoGenerate
    /\ NoDescribe
    /\ ckThreshold \in ThresholdArgs
    /\ ckOthers \in OtherParts
    /\ ckPc = "start"
    /\ ckSum = 0
    /\ ckResult = "pending"

NextSplit ==
    \/ SplitStart
    \/ FfmpegExited
    \/ PartProbed
    \/ SplitCheck

SpecSplit == InitSplit /\ [][NextSplit]_vars

\* concatMts(options) on any source directory, the output directory being
\* there or not
InitConcat ==
    /\ NoBatch
    /\ NoGetAuth
    /\ NoSplit
    /\ NoCheck
    /\ NoGenerate
    /\ NoDescribe
    /\ ccSourceDir \in Directories(ConcatNames, MaxSources)
    /\ ccDestExists \in BOOLEAN
    /\ ccPc = "start"
    /\ ccFiles = <<>>
    /\ ccEvents = <<>>
    /\ ccProbed = 0
    /\ ccSum = 0
    /\ ccDiff = 0
    /\ ccLog = "none"
    /\ ccResult = "pending"

NextConcat ==
    \/ ConcatReaddir
    \/ ConcatWriteList
    \/ ConcatMkdir
    \/ ConcatFfmpegExited
    \/ ConcatProbeInput
    \/ ConcatProbeOutput

SpecConcat == InitConcat /\ [][NextConcat]_vars

\* generateDescription(prompt) and generateDescription(prompt, maxRetries)
InitGenerate ==
    /\ NoBatch
    /\ NoGetAuth
    /\ NoSplit
    /\ NoCheck
    /\ NoConcat
    /\ NoDescribe
    /\ gdMaxRetries \in {{}} \cup {{n} : n \in 0..MaxGenRetries}
    /\ gdPc = "start"
    /\ gdAttempt = 0
    /\ gdExits = <<>>
    /\ gdOutput = <<>>
    /\ gdWaits = <<>>
    /\ gdReturned = <<>>
    /\ gdResult = "pending"

NextGenerate ==
    \/ GenStart
    \/ GenExited
    \/ GenWaitElapsed

SpecGenerate == InitGenerate /\ [][NextGenerate]_vars

\* every spawned process exits and every timer fires
SpecGenerateLive == SpecGenerate /\ WF_vars(NextGenerate)

\* the description files a directory of transcripts may already have
ExistingFor(d) ==
    SUBSET {<<SrtBaseName(f), lang>> : f \in {g \in d : EndsWith(g, DOT_SRT)},
                                    lang \in {"en", "de"}}

\* batchGenerateDescriptions(options) on any transcripts directory, with any
\* of the description files already there
InitDescribe ==
    /\ NoBatch
    /\ NoGetAuth
    /\ NoSplit
    /\ NoCheck
    /\ NoConcat
    /\ NoGenerate
    /\ bgTransDir \in Directories(TransNames, MaxTranscripts)
    /\ bgExisting \in ExistingFor(bgTransDir)
    /\ bgWritten = {}
    /\ bgTemp = {}
    /\ bgJobs = <<>>
    /\ bgNow = 0
    /\ bgErrors = <<>>
    /\ bgPc = "start"
    /\ bgResult = "pending"

NextDescribe ==
    \/ DescribeLaunch
    \/ DescribeTimerFired
    \/ DescribeJobSettled
    \/ DescribeTick
    \/ DescribeAllSettled

SpecDescribe == InitDescribe /\ [][NextDescribe]_vars

\* ------------------------------------------------------------------ claims
InsertErrorKinds == {"YouTube API error", "insert threw"}

\* uploadBatch rejected with the error of an insert attempt
InsertFailedForGood ==
    /\ result.status = "rejected"
    /\ result.error.kind \in InsertErrorKinds

\* C1: with maxRetries = R >= 0 and every insert call of a video failing,
\* the calls never exceed R + 1, uploadBatch rejects exactly when the call
\* R + 1 has failed, and it rejects with the error of that last attempt.
C1_RetryCount ==
    /\ (maxRetries >= 0 /\ pc \in {"insert", "backoff"}) =>
          /\ insertCount <= maxRetries
          /\ result.status = "pending"
    /\ InsertFailedForGood =>
          /\ maxRetries >= 0
          /\ insertCount = maxRetries + 1
          /\ result.error = lastError
          /\ lastError.attempt = maxRetries
          /\ pc = "done"

C1_Witness ==
    /\ InsertFailedForGood
    /\ maxRetries = 2
    /\ insertCount = 3

\* the delays follow retryDelay, 2 * retryDelay, 4 * retryDelay, ...
Doubling(ds, first) ==
    /\ Len(ds) >= 1 => ds[1] = first
    /\ \A k \in 1..(Len(ds) - 1) : ds[k + 1] = 2 * ds[k]

\* C2: the delay waited before attempt k is retryDelay * 2^(k-1) for
\* 1 <= k <= maxRetries: one delay per failed attempt that is retried, each
\* twice the one before, and none after the final failed attempt.
C2_BackoffDelays ==
    /\ Doubling(delays, retryDelay)
    /\ pc = "insert" => Len(delays) = attempt
    /\ pc = "backoff" => Len(delays) = attempt + 1
    /\ InsertFailedForGood => Len(delays) = maxRetries

C2_Witness ==
    /\ InsertFailedForGood
    /\ Len(delays) = 3
    /\ delays[3] = 4 * retryDelay

MismatchKinds == {"Title mismatch", "Description mismatch", "Category mismatch",
                  "Privacy mismatch"}

FetchFailureKinds == {"list threw", "not found on channel"}

StructuralKinds == {"not found in response", "missing snippet or status"}

\* a record was fetched that differs from the expected metadata
FetchedMismatch == \E rec \in vFetched : rec # vExpected

\* once a well-formed record that differs from expected is fetched,
\* verification has failed with a mismatch error, no wait was scheduled after
\* that list call and nothing runs any more
MismatchFailsAtOnce ==
    FetchedMismatch =>
        /\ pc = "done"
        /\ result.status = "rejected"
        /\ result.error.kind \in MismatchKinds
        /\ Len(vWaits) = vListCalls - 1

\* C3 (as amended): a fetched well-formed record that differs in title,
\* description, categoryId or privacyStatus fails verification at once, with
\* no further list call, for every maxAttempts; another list call is caused
\* by a fetch failure, an empty item list, a null first item or a first item
\* without snippet or status.
C3_NoRetryOnMismatch ==
    /\ MismatchFailsAtOnce
    /\ pc = "v_wait" => vLastError.kind \in FetchFailureKinds \cup StructuralKinds

C3_Witness ==
    /\ FetchedMismatch
    /\ vMaxAttempts > 1
    /\ vListCalls = 1
    /\ result.error.kind = "Title mismatch"

\* C3 as stated: only fetch failures and empty item lists cause another list call
C3_Original ==
    /\ MismatchFailsAtOnce
    /\ pc = "v_wait" => vLastError.kind \in FetchFailureKinds

\* C4 (as amended): a null first item or a first item without snippet or
\* status fails the attempt with its error, which is handled like any fetch
\* failure: on attempt maxAttempts verification fails with it and no further
\* list call is made, on an earlier attempt delayMs is waited and the list
\* call is made again.
C4_StructuralFailureRetried ==
    vLastError.kind \in StructuralKinds =>
        IF vLastError.attempt = vMaxAttempts
        THEN /\ pc = "done"
             /\ result = Rejected(vLastError)
             /\ vListCalls = vMaxAttempts
             /\ Len(vWaits) = vMaxAttempts - 1
        ELSE /\ pc = "v_wait"
             /\ result.status = "pending"
             /\ vLastError.attempt < vMaxAttempts
             /\ Len(vWaits) = vLastError.attempt
             /\ vWaits[Len(vWaits)] = vDelayMs

C4_Witness ==
    /\ vLastError.kind = "not found in response"
    /\ pc = "v_wait"
    /\ vMaxAttempts = 2

\* C4 as stated: such a response fails verification immediately
C4_Original ==
    vLastError.kind \in StructuralKinds =>
        /\ pc = "done"
        /\ result = Rejected(vLastError)

\* the elements of a sequence
Range(q) == {q[i] : i \in 1..Len(q)}

\* the convention part<N>.MTS of the split files: /^part\d+\.MTS$/
MatchesPartPattern(f) ==
    /\ Len(f) > Len(PART) + Len(DOT_MTS)
    /\ SubSeq(f, 1, Len(PART)) = PART
    /\ SubSeq(f, Len(f) - Len(DOT_MTS) + 1, Len(f)) = DOT_MTS
    /\ \A i \in (Len(PART) + 1)..(Len(f) - Len(DOT_MTS)) : f[i] \in Digits

\* C5: when the upload of a file fails permanently, uploadBatch rejects with
\* that error, and insert calls were made for that file and the files before
\* it only: no file later in the sorted order is ever attempted.
C5_AbortOnPermanentFailure ==
    /\ touched \subseteq 1..idx
    /\ (maxRetries >= 0 /\ insertCount = maxRetries + 1) => InsertFailedForGood
    /\ InsertFailedForGood =>
          /\ pc = "done"
          /\ result.error = lastError
          /\ touched = 1..idx
          /\ request.file = videoFiles[idx]
          /\ Len(inserted) = idx - 1
          /\ \A i \in 1..Len(inserted) : inserted[i].file = videoFiles[i]

C5_Witness ==
    /\ InsertFailedForGood
    /\ idx = 1
    /\ Len(videoFiles) = 2
    /\ touched = {1}

\* C6 as stated: findVideoFiles returns exactly the names of the directory
\* that match part<digits>.MTS; any other name is skipped.
C6_Original ==
    pc # "start" =>
        Range(videoFiles) = {f \in videosDir : MatchesPartPattern(f)}

\* C7: the list findVideoFiles returns holds the files that pass its filter,
\* ordered by non-decreasing extracted integer, whatever order the listing had.
C7_NumericOrder ==
    pc # "start" =>
        /\ \A i, j \in 1..Len(videoFiles) :
              i < j => PartNumber(videoFiles[i]) <= PartNumber(videoFiles[j])
        /\ Range(videoFiles) = {f \in videosDir : IsVideoFile(f)}
        /\ Len(videoFiles) = Cardinality(Range(videoFiles))

C7_Witness ==
    /\ videosDir = {part10_MTS, part2_MTS, part1_MTS}
    /\ videoFiles = <<part1_MTS, part2_MTS, part10_MTS>>

\* C8 as stated: when every upload succeeds there is exactly one insert per
\* file matching part<N>.MTS, in sorted order and titled "Video Part N", and
\* as many responses as matching files, in the same order.
C8_Original ==
    result.status = "returned" =>
        LET matching == {f \in videosDir : MatchesPartPattern(f)}
        IN  /\ Len(result.value) = Cardinality(matching)
            /\ Len(inserted) = Cardinality(matching)
            /\ \A i \in 1..Len(inserted) :
                  /\ inserted[i].file \in matching
                  /\ inserted[i].title = VIDEO_PART \o ToDecimal(PartNumber(inserted[i].file))
                  /\ i <= Len(result.value) => result.value[i].file = inserted[i].file
            /\ \A i, j \in 1..Len(inserted) :
                  i < j => PartNumber(inserted[i].file) <= PartNumber(inserted[j].file)

\* the requests sent so far: the successful ones and the latest one
RequestsSent == Range(inserted) \cup ({request} \ {NoRequest})

\* the file name without its first ".MTS"
BaseName(f) == ReplaceFirst(f, DOT_MTS)

\* C9 (as amended): the description sent for a file is the content of
\* <base>-description_en.txt, <base> being the file name without its first
\* ".MTS", or empty when that file was unreadable; the title is
\* "Video Part N"; so files with the same N get the same title, but each
\* its own description file.
\* the request r has the title and the description of its file
JoinedByBaseName(r) ==
    /\ r.title = VIDEO_PART \o ToDecimal(PartNumber(r.file))
    /\ r.description = IF r.file \in Range(descMissing) THEN <<>>
                       ELSE DescContent(BaseName(r.file) \o DESC_EN_SUFFIX)

C9_DescriptionByBaseName ==
    /\ request # NoRequest => JoinedByBaseName(request)
    /\ \A i \in 1..Len(inserted) : JoinedByBaseName(inserted[i])
    /\ \A i, j \in 1..Len(inserted) :
          (i < j /\ PartNumber(inserted[i].file) = PartNumber(inserted[j].file))
              => inserted[i].title = inserted[j].title

C9_Witness ==
    \E r1, r2 \in Range(inserted) :
        /\ r1.file = part2_MTS
        /\ r2.file = part02_MTS
        /\ r1.title = r2.title
        /\ r1.description # <<>>
        /\ r2.description # <<>>
        /\ r1.description # r2.description

\* C9 as stated: the description sent for part<digits>.MTS is the content of
\* part<N>-description_en.txt, N being the extracted integer (or empty when
\* unreadable), so that files with the same N get the same description file.
C9_Original ==
    \A r \in RequestsSent :
        MatchesPartPattern(r.file) =>
            r.description \in {<<>>,
                DescContent(PART \o ToDecimal(PartNumber(r.file)) \o DESC_EN_SUFFIX)}

\* the positions of uploadVideo, reached after the description was read
InUploadVideo == pc \in {"getAuth", "insert", "backoff", "uploaded", "v_getAuth",
                         "v_list", "v_wait"}

DescriptionDegradesToEmpty ==
    /\ warned = descMissing
    /\ (InUploadVideo /\ videoFiles[idx] \in Range(descMissing)) => description = <<>>
    /\ \A r \in RequestsSent :
          r.file \in Range(descMissing) => r.description = <<>>
    /\ \A i \in 1..Len(videoFiles) :
          (i < idx \/ result.status = "returned") =>
              \E r \in Range(inserted) : r.file = videoFiles[i]

\* C10: a description file that cannot be read gives a warning and the
\* empty description, the upload of that file goes ahead with it and the
\* loop goes on to the remaining files: the step that reads the description
\* always leads into uploadVideo for the same file, never to an abort.
C10_MissingDescription ==
    /\ []DescriptionDegradesToEmpty
    /\ [][pc = "readDesc" =>
            /\ pc' = "getAuth"
            /\ result' = result
            /\ idx' = idx
            /\ ((descMissing' # descMissing) => (description' = <<>> /\ warned' # warned))]_vars

C10_Witness ==
    /\ result.status = "returned"
    /\ Len(videoFiles) = 2
    /\ descMissing = <<videoFiles[1]>>
    /\ Len(inserted) = 2
    /\ inserted[1].description = <<>>
    /\ inserted[2].description # <<>>

\* the request r carries the fallback of every omitted option and the value
\* of every given one
CarriesDefaults(r) ==
    /\ r.categoryId = (IF options.categoryId = {} THEN "22"
                       ELSE CHOOSE v \in options.categoryId : TRUE)
    /\ r.privacyStatus = (IF options.privacyStatus = {} THEN "private"
                          ELSE CHOOSE v \in options.privacyStatus : TRUE)

\* C11: when categoryId and/or privacyStatus is omitted from the options,
\* every insert request of the batch, retries included, carries categoryId
\* "22" and privacyStatus "private" respectively.
C11_Defaults ==
    /\ request # NoRequest => CarriesDefaults(request)
    /\ \A i \in 1..Len(inserted) : CarriesDefaults(inserted[i])

C11_Witness ==
    /\ options.categoryId = {}
    /\ options.privacyStatus = {"public"}
    /\ pc = "backoff"
    /\ attempt = 1
    /\ Len(inserted) = 1
    /\ request.categoryId = "22"
    /\ request.privacyStatus = "public"
    /\ inserted[1].categoryId = "22"

\* nothing was read from the credentials or the token file, nothing written
\* to it, and the platform got no insert and no list call
NothingTouched ==
    /\ credReads = 0
    /\ tokenReads = 0
    /\ tokenWrites = 0
    /\ request = NoRequest
    /\ touched = {}
    /\ inserted = <<>>
    /\ vCalls = <<>>
    /\ vListCalls = 0

\* C12 as stated: when the videos directory holds no file matching
\* part<N>.MTS, uploadBatch returns the empty list without an error, without
\* reading credentials or token and without an insert or list call.
C12_Original ==
    (pc # "start" /\ \A f \in videosDir : ~MatchesPartPattern(f)) =>
        /\ pc = "done"
        /\ result = Returned(<<>>)
        /\ NothingTouched

\* the response to the successful insert of the file at position i
ResponseAt(i) == IF i <= Len(responses) THEN responses[i] ELSE response

\* the metadata of an insert request
MetadataOf(r) ==
    [title |-> r.title, description |-> r.description,
     categoryId |-> r.categoryId, privacyStatus |-> r.privacyStatus]

\* uploadVideo has gone past its verification condition for the file at i
PastVerifyCondition(i) == i < Len(inserted) \/ pc # "uploaded"

\* verifyVideo was invoked for the file at position i
VerifierInvoked(i) == \E k \in 1..Len(vCalls) : vCalls[k][1] = i

\* C13: after a successful insert the verifier is invoked if and only if
\* verifyUploads is not false (omitted counts as enabled) and the response
\* carries a non-empty video id; it is invoked at most once per insert, and
\* with exactly the title, description, categoryId and privacyStatus of the
\* insert request.
C13_VerifierInvocation ==
    /\ \A i \in 1..Len(inserted) :
          PastVerifyCondition(i) =>
              (VerifierInvoked(i) <=>
                   (options.verifyUploads # {FALSE} /\ ResponseAt(i).id # <<>>))
    /\ \A k \in 1..Len(vCalls) :
          /\ vCalls[k][1] \in 1..Len(inserted)
          /\ vCalls[k][2] = MetadataOf(inserted[vCalls[k][1]])
    /\ \A k, l \in 1..Len(vCalls) : k < l => vCalls[k][1] < vCalls[l][1]

C13_Witness ==
    /\ options.verifyUploads = {}
    /\ Len(responses) = 1
    /\ responses[1].id = <<>>
    /\ Len(vCalls) = 1
    /\ vCalls[1][1] = 2
    /\ vCalls[1][2].description # <<>>
    /\ vCalls[1][2] = MetadataOf(request)

\* the failed insert attempt behind the error e was handled as the catch
\* block handles a thrown error: it counted as attempt e.attempt, and either
\* the delay retryDelay * 2^attempt is being waited before the next attempt
\* or, on the last attempt, uploadBatch has rejected with e
HandledLikeThrow(e) ==
    /\ insertCount = e.attempt + 1
    /\ IF e.attempt < maxRetries
       THEN /\ pc = "backoff"
            /\ attempt = e.attempt
            /\ result.status = "pending"
            /\ Len(delays) = e.attempt + 1
            /\ delays[Len(delays)] = retryDelay * Pow2(e.attempt)
       ELSE /\ pc = "done"
            /\ e.attempt = maxRetries
            /\ result = Rejected(e)
            /\ Len(delays) = maxRetries

\* C14: an insert call answered with a status >= 400 is handled exactly
\* like one that throws, whether the status is 4xx or 5xx: no such response
\* is taken for a success, the attempt is used up, and it is followed by the
\* same backoff and retry or, after the last attempt, by the rejection.
C14_StatusHandledLikeThrow ==
    /\ response.status < 400
    /\ \A i \in 1..Len(responses) : responses[i].status < 400
    /\ lastError.kind \in InsertErrorKinds => HandledLikeThrow(lastError)

C14_Witness ==
    /\ lastError = Err("YouTube API error", 1, 403)
    /\ pc = "backoff"
    /\ delays = <<retryDelay, 2 * retryDelay>>

\* verifyVideo rejected with the error of a list attempt
FetchFailedForGood ==
    /\ result.status = "rejected"
    /\ result.error.kind \in FetchFailureKinds \cup StructuralKinds

\* C15: when every list call fails or returns no item, verifyVideo makes
\* exactly maxAttempts list calls, waits the same fixed delayMs between
\* consecutive attempts, with no growth and no wait after the last attempt,
\* and then rejects with the error of the last attempt.
C15_FixedDelayAttempts ==
    /\ \A k \in 1..Len(vWaits) : vWaits[k] = vDelayMs
    /\ pc = "v_list" => (vListCalls = vAttempt - 1 /\ Len(vWaits) = vAttempt - 1)
    /\ pc = "v_wait" => (vListCalls = vAttempt /\ Len(vWaits) = vAttempt
                            /\ vAttempt < vMaxAttempts)
    /\ FetchFailedForGood =>
          /\ vListCalls = vMaxAttempts
          /\ Len(vWaits) = vMaxAttempts - 1
          /\ result.error = vLastError
          /\ vLastError.attempt = vMaxAttempts

C15_Witness ==
    /\ FetchFailedForGood
    /\ result.error.kind = "not found on channel"
    /\ vMaxAttempts = DEFAULT_MAX_ATTEMPTS
    /\ vDelayMs = DEFAULT_DELAY_MS
    /\ vListCalls = 5
    /\ vWaits = <<3000, 3000, 3000, 3000>>

\* the fields in the order title, description, category, privacy, each with
\* the error verifyVideo names it by
FieldOrder ==
    <<[field |-> "title", error |-> "Title mismatch"],
      [field |-> "description", error |-> "Description mismatch"],
      [field |-> "categoryId", error |-> "Category mismatch"],
      [field |-> "privacyStatus", error |-> "Privacy mismatch"]>>

\* the positions of FieldOrder at which rec differs from expected
DifferingAt(rec, expected) ==
    {n \in 1..Len(FieldOrder) : rec[FieldOrder[n].field] # expected[FieldOrder[n].field]}

\* C16: verifyVideo returns normally if and only if a record was fetched
\* whose title, description, categoryId and privacyStatus all equal the
\* expected values; for a fetched record that differs it throws the error of
\* the first differing field in the order title, description, category,
\* privacy.
C16_FieldByField ==
    /\ result.status = "resolved" => vFetched = {vExpected}
    /\ \A rec \in vFetched :
          IF DifferingAt(rec, vExpected) = {}
          THEN result.status = "resolved"
          ELSE /\ result.status = "rejected"
               /\ result.error.kind = FieldOrder[Min(DifferingAt(rec, vExpected))].error

C16_Witness ==
    /\ result.status = "rejected"
    /\ result.error.kind = "Description mismatch"
    /\ \E rec \in vFetched : DifferingAt(rec, vExpected) = {2, 4}

\* what a getAuth call does when it reuses the stored token
REUSE_FLOW == <<"readCredentials", "readToken">>

\* what a getAuth call does when it has to obtain a new token
INTERACTIVE_FLOW ==
    <<"readCredentials", "readToken", "printUrl", "question", "lineRead",
      "getToken", "writeToken">>

\* the client the latest getAuth call returned
LastReturned == gaReturned[Len(gaReturned)]

\* C17: when the token file at the explicit or derived path can be read and
\* parsed, getAuth attaches that token to the client and returns it without
\* the interactive flow and without writing the token file, whether the
\* token has expired or not.
C17_StoredTokenReused ==
    LET token == tokenFiles[gaTokenPath]
    IN  ("readToken" \in Range(gaEvents) /\ token \in {"valid", "expired"}) =>
            /\ gaPc = "idle"
            /\ gaOutcome = "returned"
            /\ gaEvents = REUSE_FLOW
            /\ LastReturned.credentials = token
            /\ gaAuth = {LastReturned}

C17_Witness ==
    /\ gaTokenPath = DERIVED_TOKEN_PATH
    /\ tokenFiles[DERIVED_TOKEN_PATH] = "expired"
    /\ gaOutcome = "returned"
    /\ gaEvents = REUSE_FLOW
    /\ LastReturned.credentials = "expired"

\* C18: when the token file cannot be read or parsed, getAuth prints the
\* authorization URL, waits for one console line, exchanges the code, writes
\* the token to the token path and returns the client, in this order; the
\* client is returned only after the token was written, and after a failed
\* exchange nothing was written to the token path.
C18_InteractiveFlow ==
    /\ Len(gaEvents) <= Len(INTERACTIVE_FLOW)
    /\ gaEvents = SubSeq(INTERACTIVE_FLOW, 1, Len(gaEvents))
    /\ ("readToken" \in Range(gaEvents) /\ ~TokenParses(tokenFiles[gaTokenPath])) =>
          /\ Len(gaEvents) >= 4
          /\ gaOutcome # "returned"
          /\ gaAuth = {}
    /\ (gaOutcome = "returned" /\ "printUrl" \in Range(gaEvents)) =>
          /\ gaEvents = INTERACTIVE_FLOW
          /\ tokenFiles[gaTokenPath] = "fresh"
          /\ LastReturned.credentials = "fresh"
    /\ gaOutcome = "exchangeFailed" =>
          /\ "writeToken" \notin Range(gaEvents)
          /\ ~TokenParses(tokenFiles[gaTokenPath])

C18_Witness ==
    /\ gaOutcome = "returned"
    /\ gaEvents = INTERACTIVE_FLOW
    /\ gaTokenPath = EXPLICIT_TOKEN_PATH
    /\ tokenFiles[EXPLICIT_TOKEN_PATH] = "fresh"
    /\ gaCalls = 2
    /\ Len(gaReturned) = 1

\* C19 as stated: within one uploadBatch run, over any number of videos and
\* with verification enabled, the credentials file is read exactly once.
C19_Original ==
    /\ credReads <= 1
    /\ (result.status = "returned" /\ Len(videoFiles) > 0) => credReads = 1

\* one invocation per part so far, in order, the last part without -t, and
\* start + remaining = duration before every invocation
OncePerPartInOrder ==
    /\ Len(spCommands) <= parts
    /\ \A k \in 1..Len(spCommands) :
          /\ spCommands[k].part = k
          /\ (spCommands[k].t = {}) <=> (k = parts)
    /\ spPc \in {"ffmpeg", "probe"} =>
          /\ Len(spCommands) = spI
          /\ Len(spActual) = spI - 1
    /\ spResult = "resolved" =>
          /\ Len(spCommands) = parts
          /\ Len(spActual) = parts
    /\ spCommands # <<>> =>
          /\ spStart = SumTo(spActual, Len(spActual))
          /\ spStart + spRemaining = spDuration

\* C20 (as amended): splitVideoPrecise invokes the transcoder once per part
\* i = 1..N, in order; part i is started at the sum of the measured durations
\* of parts 1..i-1 rounded to three decimals, and asks for the duration
\* (D - that sum) / (N - i + 1) rounded to three decimals; the last part is
\* invoked without a duration limit; start + remaining = D holds before
\* every invocation.
C20_SplitCommands ==
    /\ OncePerPartInOrder
    /\ \A k \in 1..Len(spCommands) :
          LET before == SumTo(spActual, k - 1)
          IN  /\ spCommands[k].ss = RoundRatio(before, 1000)
              /\ k < parts =>
                    spCommands[k].t = {RoundRatio(spDuration - before,
                                                  1000 * (parts - k + 1))}

C20_Witness ==
    /\ spResult = "resolved"
    /\ parts = 3
    /\ spDuration = 10000000
    /\ spCommands[1] = [part |-> 1, ss |-> 0, t |-> {3333}]
    /\ spActual[1] = 3332600
    /\ spCommands[2] = [part |-> 2, ss |-> 3333, t |-> {3334}]
    /\ spCommands[3].t = {}

\* C20 as stated: part i starts exactly at the sum of the measured durations
\* of parts 1..i-1 and asks exactly for (D - that sum) / (N - i + 1).
C20_Original ==
    /\ OncePerPartInOrder
    /\ \A k \in 1..Len(spCommands) :
          LET before == SumTo(spActual, k - 1)
          IN  /\ 1000 * spCommands[k].ss = before
              /\ \A ms \in spCommands[k].t :
                    1000 * ms * (parts - k + 1) = spDuration - before

\* the last part's measured duration minus the rest of the source after its
\* -ss
LastPartDeviation ==
    spActual[parts] - (spDuration - 1000 * spCommands[parts].ss)

\* C21 (as amended): after splitVideoPrecise resolved, the sum of the part
\* durations differs from D by the last part's deviation from the rest of
\* the source plus the rounding of its start (at most 0.0005 s), whatever the
\* earlier parts measured; splitVideoPreciseCheck passes exactly when
\* |sum - D| < threshold, so it returns true when the directory holds no
\* other part file and the last part's deviation plus 0.0005 s is below the
\* threshold.
C21_Conservation ==
    (ckPc = "done" /\ ckResult \in {"passed", "warning"}) =>
        LET others == SumTo(ckOthers, Len(ckOthers))
        IN  /\ (ckResult = "passed") <=> (Abs(ckSum - spDuration) < threshold)
            /\ Abs(ckSum - others - spDuration - LastPartDeviation) <= 500
            /\ (others = 0 /\ Abs(LastPartDeviation) + 500 < threshold)
                  => ckResult = "passed"

C21_Witness ==
    /\ ckResult = "passed"
    /\ ckOthers = <<>>
    /\ parts = 3
    /\ spActual[1] = 1000 * (CHOOSE ms \in spCommands[1].t : TRUE) + 300500
    /\ LastPartDeviation = 0

\* C21 as stated: the check run on the parts of a resolved split, in a
\* directory holding nothing else, returns true.
C21_Original ==
    (ckPc = "done" /\ ckResult \in {"passed", "warning"} /\ ckOthers = <<>>) =>
        ckResult = "passed"

\* C22: after a successful concatenation, concatMts resolves, with a warning
\* whenever the sum of the input durations and the output duration are more
\* than the tolerance apart, the output being shorter or longer, and with
\* "Durations match" only when they agree within the tolerance.
C22_Original ==
    ccResult = "resolved" =>
        /\ ccLog \in {"warn", "match"}
        /\ (ccLog = "warn") <=> (Abs(ccDiff) > CONCAT_TOLERANCE)

\* C30: the manifest is written into an output directory that exists, being
\* made first when it was not there, and a missing output directory never
\* makes concatMts fail.
C30_Original ==
    /\ ccResult # "ENOENT"
    /\ \A k \in 1..Len(ccEvents) :
          ccEvents[k] = "writeFile" =>
              (ccDestExists \/ \E j \in 1..(k - 1) : ccEvents[j] = "mkdir")

\* the invocations so far that exited with a code other than 0
FailedInvocations == Cardinality({k \in 1..Len(gdExits) : gdExits[k] # 0})

\* what one generateDescription call has done so far is what the retry loop
\* allows
RetryLoopRespected ==
    /\ Len(gdExits) <= genMaxRetries
    /\ \A k \in 1..(Len(gdExits) - 1) : gdExits[k] # 0
    /\ \A k \in 1..Len(gdWaits) : gdWaits[k] = GEN_RETRY_WAIT
    /\ Len(gdWaits) = IF FailedInvocations < genMaxRetries THEN FailedInvocations
                      ELSE FailedInvocations - (IF genMaxRetries > 0 THEN 1 ELSE 0)
    /\ gdResult = "returned" =>
          /\ gdExits[Len(gdExits)] = 0
          /\ gdReturned = CleanOutput(gdOutput)
    /\ gdResult = "opencode failed after retries" =>
          /\ Len(gdExits) = genMaxRetries
          /\ FailedInvocations = genMaxRetries
    /\ gdPc = "done" => gdResult \in {"returned", "opencode failed after retries"}

\* C29: generateDescription invokes the LLM CLI at most maxRetries times
\* (default 5), returns the cleaned output of the first invocation that exits
\* with code 0 without invoking it again, waits 1 second after each failed
\* invocation except the last, throws after maxRetries failed invocations,
\* and always comes to an end.
C29_BoundedRetry == []RetryLoopRespected /\ <>(gdPc = "done")

C29_Witness ==
    /\ gdResult = "returned"
    /\ gdMaxRetries = {}
    /\ gdExits = <<1, 1, 0>>
    /\ gdWaits = <<GEN_RETRY_WAIT, GEN_RETRY_WAIT>>
    /\ gdOutput # gdReturned

\* C23: no job loses a file it still needs to another job: the temporary
\* transcript of every job that has not started its generation yet exists.
C23_Original ==
    bgPc # "start" =>
        \A k \in 1..Len(bgJobs) :
            bgJobs[k].state = "waiting" => bgJobs[k].base \in bgTemp

\* the rounds whose description file was not there at launch, in loop order
RECURSIVE RoundsToRun(_)
RoundsToRun(rounds) ==
    IF rounds = <<>> THEN <<>>
    ELSE (IF Head(rounds) \in bgExisting THEN <<>> ELSE <<Head(rounds)>>)
         \o RoundsToRun(Tail(rounds))

\* C24: the jobs are the (transcript, language) pairs without a description
\* file, in loop order; the k-th of them (k = 0, 1, ...) has the delay
\* k * 1000 ms and begins its generation that long after the launch, a
\* skipped pair taking no slot; batchGenerateDescriptions resolves only when
\* every launched job has finished.
C24_Stagger ==
    bgPc \in {"joined", "done"} /\ bgResult # "readdir failed" =>
        LET toRun == RoundsToRun(Rounds(SrtFilesOf(bgTransDir)))
        IN  /\ Len(bgJobs) = Len(toRun)
            /\ \A k \in 1..Len(bgJobs) :
                  /\ <<bgJobs[k].base, bgJobs[k].language>> = toRun[k]
                  /\ bgJobs[k].delayMs = (k - 1) * STAGGER
                  /\ bgJobs[k].state = "waiting" => bgJobs[k].startedAt = -1
                  /\ bgJobs[k].state # "waiting" =>
                        bgJobs[k].startedAt = (k - 1) * STAGGER
            /\ bgResult = "resolved" =>
                  \A k \in 1..Len(bgJobs) : bgJobs[k].state = "finished"

C24_Witness ==
    /\ bgResult = "resolved"
    /\ <<SrtBaseName(part1_srt), "en">> \in bgExisting
    /\ Len(bgJobs) = 3
    /\ bgJobs[2].base = SrtBaseName(part2_srt)
    /\ bgJobs[2].startedAt = STAGGER
    /\ bgJobs[3].startedAt = 2 * STAGGER

\* C28: a job whose generation fails is logged by batchGenerateDescriptions
\* for that job only, and neither stops the other jobs nor keeps
\* batchGenerateDescriptions from resolving.
C28_Original ==
    /\ bgResult # "exited"
    /\ \A k \in 1..Len(bgJobs) : bgJobs[k].state # "failed"
    /\ \A e \in 1..Len(bgErrors) : bgErrors[e].by = "batchGenerateDescriptions"

VerificationFailed ==
    /\ caller = "uploader"
    /\ result.status = "rejected"
    /\ result.error.kind \in FetchFailureKinds \cup StructuralKinds \cup MismatchKinds

\* C26: when the verification of an uploaded file fails, by exhausted fetch
\* attempts or by a field mismatch, uploadBatch rejects with the verification
\* error: the video is inserted on the platform, nothing is returned (neither
\* its response nor the responses collected for the earlier files), and no
\* insert call is made for a later file.
C26_VerificationFailureAborts ==
    /\ (caller = "uploader" /\ FetchedMismatch) =>
          (VerificationFailed /\ result.error.kind \in MismatchKinds)
    /\ VerificationFailed =>
          /\ pc = "done"
          /\ result.value = <<>>
          /\ Len(inserted) = idx
          /\ inserted[idx].file = videoFiles[idx]
          /\ response.file = videoFiles[idx]
          /\ response.id # <<>>
          /\ Len(responses) = idx - 1
          /\ touched = 1..idx
          /\ result.error.kind \notin MismatchKinds =>
                (result.error = vLastError /\ vListCalls = DEFAULT_MAX_ATTEMPTS)

C26_Witness ==
    /\ VerificationFailed
    /\ result.error.kind = "Title mismatch"
    /\ Len(videoFiles) = 2
    /\ idx = 1
    /\ Len(inserted) = 1
    /\ touched = {1}

\* C27: on one YouTubeAuthenticator built from paths, once a getAuth call has
\* returned, every later call returns that same client and reads no file; a
\* call that fails leaves nothing cached, so that the next call starts again
\* with the credentials file; an authenticator built from a pre-configured
\* client returns that client at every call and never reads or writes a file.
C27_ClientCached ==
    /\ gaPreconfiguredAuth # {} =>
          /\ gaPc = "idle"
          /\ gaEvents = <<>>
          /\ gaCreated = 0
          /\ Len(gaReturned) = gaCalls
          /\ \A k \in 1..Len(gaReturned) : gaReturned[k] \in gaPreconfiguredAuth
    /\ (gaPreconfiguredAuth = {} /\ gaReturned # <<>>) =>
          /\ gaPc = "idle"
          /\ gaOutcome = "returned"
          /\ gaAuth = {gaReturned[1]}
          /\ gaReturned[1].id = gaCreated
          /\ \A k \in 1..Len(gaReturned) : gaReturned[k] = gaReturned[1]
          /\ Len(gaReturned) >= 2 => gaEvents = <<>>
    /\ (gaPreconfiguredAuth = {} /\ gaReturned = <<>>) =>
          /\ gaAuth = {}
          /\ gaPc \notin {"idle", "readCredentials"} =>
                (gaEvents # <<>> /\ gaEvents[1] = "readCredentials"
                 /\ gaClient.id = gaCreated /\ gaCreated >= 1)
          /\ gaPc = "idle" => gaOutcome # "returned"

C27_Witness ==
    /\ gaPreconfiguredAuth = {}
    /\ gaCalls = 3
    /\ gaCreated = 2
    /\ Len(gaReturned) = 2
    /\ gaReturned[2] = gaReturned[1]
    /\ gaEvents = <<>>

====
